---- MODULE Spec2Model ----
(***************************************************************************)
(* PickLLM: the retrieval-augmented chatbot (src/src/rag.py) and its lazy  *)
(* process-wide singleton behind the /api/chat endpoint (src/app.py).      *)
(*                                                                         *)
(* Text is a sequence of one-character strings.  A Python Optional value   *)
(* is None (the empty tuple) or Some(v) (the one-element tuple).           *)
(***************************************************************************)
EXTENDS Integers, Sequences, FiniteSets, TLC

None == <<>>
Some(v) == <<v>>
Val(o) == o[1]

(***************************************************************************)
(* Bounds of the model.                                                    *)
(***************************************************************************)
NumThreads == 2
MaxRequests == 2
MaxCalls == 3

Threads == 1..NumThreads

(***************************************************************************)
(* Text helpers: str.strip(), str.join().                                  *)
(***************************************************************************)
Whitespace == {" ", "\n", "\t", "\r"}

RECURSIVE LStrip(_)
LStrip(s) == IF s # <<>> /\ Head(s) \in Whitespace THEN LStrip(Tail(s)) ELSE s

RECURSIVE RStrip(_)
RStrip(s) ==
  IF s # <<>> /\ s[Len(s)] \in Whitespace
  THEN RStrip(SubSeq(s, 1, Len(s) - 1))
  ELSE s

Strip(s) == RStrip(LStrip(s))

RECURSIVE Count(_, _)
Count(s, c) ==
  IF s = <<>> THEN 0
  ELSE (IF Head(s) = c THEN 1 ELSE 0) + Count(Tail(s), c)

(***************************************************************************)
(* RAGChatbot._split_markdown_by_level: re.compile('^(#{level} )(.+)$',    *)
(* re.MULTILINE).split(text), then one section per match.                  *)
(***************************************************************************)
IsLineStart(text, p) == p = 1 \/ text[p - 1] = "\n"

\* the pattern with '#{level,}' for '#{level}': deeper headings match too
HeaderAt_AnyDeeperLevel(text, p, level) ==
  /\ IsLineStart(text, p)
  /\ \E l \in level..(level + 1) :
       /\ p + l + 1 <= Len(text)
       /\ \A i \in p..(p + l - 1) : text[i] = "#"
       /\ text[p + l] = " "
       /\ text[p + l + 1] # "\n"

\* '^(#{level} )(.+)$' matches at p: level markers, a space, then at least
\* one character that is not a newline ('.+' runs to the end of the line).
HeaderAt(text, p, level) ==
  /\ IsLineStart(text, p)
  /\ p + level + 1 <= Len(text)
  /\ \A i \in p..(p + level - 1) : text[i] = "#"
  /\ text[p + level] = " "
  /\ text[p + level + 1] # "\n"

LineEnd(text, p) ==
  CHOOSE e \in p..Len(text) :
    /\ \A i \in p..e : text[i] # "\n"
    /\ (e = Len(text) \/ text[e + 1] = "\n")

SetMin(S) == CHOOSE x \in S : \A y \in S : x <= y

\* pattern.split(text) from position from on:
\* [before_match, group1, group2, after_match, ...]
RECURSIVE PatternSplit(_, _, _)
PatternSplit(text, level, from) ==
  LET ms == {p \in from..Len(text) : HeaderAt(text, p, level)}
  IN IF ms = {}
     THEN <<SubSeq(text, from, Len(text))>>
     ELSE LET p == SetMin(ms)
              e == LineEnd(text, p)
          IN <<SubSeq(text, from, p - 1),
               SubSeq(text, p, p + level),
               SubSeq(text, p + level + 1, e)>>
             \o PatternSplit(text, level, e + 1)

\* the section built from the content alone
SectionOf_ContentOnly(parts, n) ==
  LET i == 3 * n - 1
  IN IF i + 2 <= Len(parts) THEN Strip(parts[i + 2]) ELSE <<>>

\* the section built with one newline between header and content
SectionOf_OneNewline(parts, n) ==
  LET i == 3 * n - 1
      header == Strip(parts[i] \o parts[i + 1])
      content == IF i + 2 <= Len(parts) THEN Strip(parts[i + 2]) ELSE <<>>
  IN IF content # <<>>
     THEN header \o <<"\n">> \o content
     ELSE header

\* the loop 'for i in range(1, len(parts), 3)' (0-based i = 3n - 2)
SectionOf(parts, n) ==
  LET i == 3 * n - 1
      header == Strip(parts[i] \o parts[i + 1])
      content == IF i + 2 <= Len(parts) THEN Strip(parts[i + 2]) ELSE <<>>
  IN IF content # <<>>
     THEN header \o <<"\n", "\n">> \o content
     ELSE header

\* the split that drops the headers without content
SplitMarkdownByLevel_DropsEmpty(text, level) ==
  LET parts == PatternSplit(text, level, 1)
      kept == SelectSeq([n \in 1..((Len(parts) - 1) \div 3) |-> n],
                        LAMBDA n : IF 3 * n + 1 <= Len(parts)
                                   THEN Strip(parts[3 * n + 1]) # <<>>
                                   ELSE FALSE)
  IN [m \in 1..Len(kept) |-> SectionOf(parts, kept[m])]

\* lines 92-118
SplitMarkdownByLevel(text, level) ==
  LET parts == PatternSplit(text, level, 1)
  IN [n \in 1..((Len(parts) - 1) \div 3) |-> SectionOf(parts, n)]

(***************************************************************************)
(* RAGChatbot._process_documents: a document is a record with the keys of  *)
(* post.to_dict() plus 'filename'.                                         *)
(***************************************************************************)
ChunkOf(doc, section) ==
  [k \in (DOMAIN doc \ {"content"}) \cup {"section"} |->
     IF k = "section" THEN section ELSE doc[k]]

DocChunks(doc) ==
  LET doc_content == IF "content" \in DOMAIN doc THEN doc["content"] ELSE <<>>
  IN IF doc_content = <<>>
     THEN <<>>
     ELSE LET sections == SplitMarkdownByLevel(doc_content, 2)
          IN [n \in 1..Len(sections) |-> ChunkOf(doc, sections[n])]

RECURSIVE ProcessDocuments(_)
ProcessDocuments(data) ==
  IF data = <<>> THEN <<>>
  ELSE DocChunks(Head(data)) \o ProcessDocuments(Tail(data))

(***************************************************************************)
(* The corpus snapshots a download can answer with (what _read_repo_data   *)
(* returns for them).  A file name is text.                                *)
(***************************************************************************)
TextAB ==
  <<"#", " ", "T", "\n", "\n",
    "#", "#", " ", "A", "\n", "a", "\n",
    "#", "#", " ", "B", "\n", "b">>
TextC == <<"i", "\n", "#", "#", " ", "C", "\n", "a", "b", "\n">>
TextNoHeading == <<"#", " ", "T", "\n", "a">>

NameReadme == <<"R", ".", "m", "d">>
NameEmpty == <<"e", ".", "M", "D">>
NameIntro == <<"i", ".", "m", "d">>
NameDocsC == <<"d", "/", "c", ".", "m", "d", "x">>

Snapshot1 ==
  <<[content |-> TextAB, filename |-> NameReadme],
    [content |-> <<>>, filename |-> NameEmpty]>>
Snapshot2 ==
  <<[content |-> TextNoHeading, filename |-> NameIntro],
    [content |-> TextC, filename |-> NameDocsC, title |-> "C"]>>

Snapshots == {Snapshot1, Snapshot2}

(***************************************************************************)
(* RAGChatbot._read_repo_data, lines 39-65.  A response is a status code   *)
(* and a body; the body is None when zipfile.ZipFile rejects it, or the    *)
(* archive's infolist().  An entry is a file name and what opening,        *)
(* reading and frontmatter.loads make of the file: None when one of them   *)
(* raises, or the post (its metadata and its content).                     *)
(***************************************************************************)
Lower(c) ==
  CASE c = "M" -> "m"
    [] c = "D" -> "d"
    [] c = "X" -> "x"
    [] OTHER -> c

LowerText(s) == [i \in 1..Len(s) |-> Lower(s[i])]

EndsWith(s, suffix) ==
  /\ Len(suffix) <= Len(s)
  /\ SubSeq(s, Len(s) - Len(suffix) + 1, Len(s)) = suffix

\* lines 48-52
Accepted(filename) ==
  \/ EndsWith(LowerText(filename), <<".", "m", "d">>)
  \/ EndsWith(LowerText(filename), <<".", "m", "d", "x">>)

\* lines 58-59: post.to_dict(), then data['filename'] = filename
ToDocument(entry) ==
  LET post == Val(entry.post)
  IN [k \in DOMAIN post.metadata \cup {"content", "filename"} |->
        IF k = "filename" THEN entry.filename
        ELSE IF k = "content" THEN post.content
        ELSE post.metadata[k]]

\* the loop of lines 46-63 leaving the loop at the first file whose read or
\* parse raises
RECURSIVE ReadEntries_StopAtError(_)
ReadEntries_StopAtError(infolist) ==
  IF infolist = <<>> THEN <<>>
  ELSE LET entry == Head(infolist)
       IN IF ~Accepted(entry.filename)
          THEN ReadEntries_StopAtError(Tail(infolist))
          ELSE IF entry.post = None
          THEN <<>>
          ELSE <<ToDocument(entry)>> \o ReadEntries_StopAtError(Tail(infolist))

\* the loop of lines 46-63
RECURSIVE ReadEntries(_)
ReadEntries(infolist) ==
  IF infolist = <<>> THEN <<>>
  ELSE LET entry == Head(infolist)
       IN IF ~Accepted(entry.filename)
          THEN ReadEntries(Tail(infolist))
          ELSE IF entry.post = None
          THEN ReadEntries(Tail(infolist))
          ELSE <<ToDocument(entry)>> \o ReadEntries(Tail(infolist))

NoMetadata == [k \in {} |-> ""]
Post(metadata, content) == Some([metadata |-> metadata, content |-> content])

EntryReadme == [filename |-> NameReadme, post |-> Post(NoMetadata, TextAB)]
EntryScript == [filename |-> <<"a", ".", "p", "y">>, post |-> Post(NoMetadata, TextC)]
EntryBroken == [filename |-> <<"b", ".", "m", "d">>, post |-> None]
EntryEmpty == [filename |-> NameEmpty, post |-> Post(NoMetadata, <<>>)]
EntryIntro == [filename |-> NameIntro, post |-> Post(NoMetadata, TextNoHeading)]
EntryDocsC == [filename |-> NameDocsC, post |-> Post([title |-> "C"], TextC)]

EntryHeadingOnly ==
  [filename |-> <<"h", ".", "m", "d">>,
   post |-> Post(NoMetadata, <<"#", "#", " ", "A">>)]
EntryBlankBody ==
  [filename |-> <<"w", ".", "M", "d">>,
   post |-> Post(NoMetadata, <<"#", "#", " ", "B", "\n", " ", "\n">>)]

\* the archive of Snapshot1 and the archive of Snapshot2
Archive1 == <<EntryReadme, EntryScript, EntryBroken, EntryEmpty>>
Archive2 == <<EntryIntro, EntryDocsC>>

Response(status_code, content) ==
  [status_code |-> status_code, content |-> content]

\* what requests.get answers with
Responses ==
  {Response(200, Some(Archive1)), Response(200, Some(Archive2)),
   Response(404, Some(Archive1)), Response(200, None)}

(***************************************************************************)
(* The embedding model (SentenceTransformer.encode): a deterministic map   *)
(* from text to a fixed-length vector.                                     *)
(***************************************************************************)
Encode(text) == <<Count(text, "a"), Count(text, "b")>>

RECURSIVE Dot(_, _)
Dot(u, v) ==
  IF u = <<>> \/ v = <<>> THEN 0
  ELSE Head(u) * Head(v) + Dot(Tail(u), Tail(v))

(***************************************************************************)
(* The vector index (minsearch.VectorSearch as rag.py uses it).            *)
(***************************************************************************)
\* VectorSearch(): nothing fitted yet
NewIndex == [vectors |-> None, docs |-> <<>>]

\* VectorSearch.fit(vectors, payload)
FitIndex(vectors, payload) == [vectors |-> Some(vectors), docs |-> payload]

\* the k best positions: descending score, earlier position first on a tie
RECURSIVE TopK(_, _, _)
TopK(scores, remaining, k) ==
  IF k = 0 \/ remaining = {} THEN <<>>
  ELSE LET best == CHOOSE i \in remaining : \A j \in remaining :
                     \/ scores[i] > scores[j]
                     \/ (scores[i] = scores[j] /\ i <= j)
       IN <<best>> \o TopK(scores, remaining \ {best}, k - 1)

SearchPositions(index, q, k) ==
  LET vs == Val(index.vectors)
      scores == [i \in 1..Len(vs) |-> Dot(vs[i], q)]
  IN TopK(scores, 1..Len(vs), k)

\* repo_vindex.search(q, num_results) raises on an index that was never
\* fitted and when a ranked position has no payload
SearchRaises(index, q, k) ==
  IF index.vectors = None THEN TRUE
  ELSE \E n \in 1..Len(SearchPositions(index, q, k)) :
         SearchPositions(index, q, k)[n] > Len(index.docs)

\* what repo_vindex.search does on an index that was fitted with no vectors
\* is not decided by rag.py: it may raise as well as answer
SearchMayRaise(index, q, k) ==
  SearchRaises(index, q, k) \/ index.vectors = Some(<<>>)

SearchIndex(index, q, k) ==
  LET pos == SearchPositions(index, q, k)
  IN [n \in 1..Len(pos) |-> index.docs[pos[n]]]

(***************************************************************************)
(* Literals of the source.                                                 *)
(***************************************************************************)
NotInitializedError == "Chatbot not initialized. Call initialize() first."
BotApology ==
  "I'm sorry, I encountered an error processing your question. Please try again."
Unavailable ==
  "Sorry, the chatbot is currently unavailable. Please try again later or contact support."
EndpointApology ==
  "Sorry, I encountered an error processing your question. Please try again."
MessageRequired == "Message is required"
DownloadFailed == "Failed to download repository"
BadZipFile == "File is not a zip file"
NumResults == 2

(***************************************************************************)
(* Inputs: request bodies, and what the external services answer.          *)
(***************************************************************************)
\* data.get('message', ''), or a body for which lines 141-142 raise
Messages == {<<>>, <<" ">>, <<" ", "a", "\n">>}
Bodies == {Some(m) : m \in Messages} \cup {None}

\* response.choices[0].message.content is an Optional[str]
GenContents == {None, Some(""), Some("PickLLM recommends models.")}

(***************************************************************************)
(* State.                                                                  *)
(***************************************************************************)
VARIABLES
  rag_chatbot,          \* app.py global: None or Some(bot id)
  chatbot_initialized,  \* app.py global
  chatbot_error,        \* app.py global: None or Some(str(e))
  bots,                 \* the RAGChatbot objects, by id
  pc,                   \* where each thread is
  query,                \* the query of the running chat call
  this,                 \* the RAGChatbot a running method is bound to (self)
  data,                 \* initialize(): the downloaded documents
  emb,                  \* _build_index(): the local list embeddings
  context,              \* chat(): the retrieved chunks
  response,             \* what RAGChatbot.chat returned
  reply,                \* what the endpoint answered
  exc,                  \* the exception raised in this call, "" if none
  embedded,             \* this chat call made an embedding call
  gen_out,              \* what the generation call of this chat call did
  arrived_failed,       \* the request arrived after a failure was recorded
  gen_failed,           \* some generation call has raised so far
  init_started,         \* calls of initialize() so far
  requests,             \* requests / driver calls so far
  resp,                 \* _read_repo_data(): what requests.get returned
  searches,             \* the direct _vector_search calls that returned, in order
  results,              \* what the running _vector_search call returned
  text,                 \* _split_markdown_by_level(): its argument text
  level,                \* _split_markdown_by_level(): its argument level
  sections,             \* _split_markdown_by_level(): what it returned
  prompt,               \* _format_prompt(): what it returned
  use_case,             \* the questionnaire's use case
  visual_ai_type,       \* the questionnaire's visual AI type
  model_type,           \* the questionnaire's model type preference
  priority,             \* get_top_recommendations(): its argument priority
  top_n,                \* get_top_recommendations(): its argument top_n
  data_dir,             \* the CSV files of the data directory
  recommendations,      \* what get_top_recommendations returned
  explanation           \* what generate_explanation returned

vars ==
  <<rag_chatbot, chatbot_initialized, chatbot_error, bots, pc, query, this,
    data, emb, context, response, reply, exc, embedded, gen_out,
    arrived_failed, gen_failed, init_started, requests, resp, searches,
    results, text, level, sections, prompt, use_case, visual_ai_type,
    model_type, priority, top_n, data_dir, recommendations, explanation>>

app_globals == <<rag_chatbot, chatbot_initialized, chatbot_error>>
init_locals == <<data, emb>>
chat_locals == <<query, context, response, reply, embedded, gen_out>>
counters == <<gen_failed, init_started, requests>>
form_locals ==
  <<use_case, visual_ai_type, model_type, priority, top_n, data_dir,
    recommendations, explanation>>
helper_locals ==
  <<searches, results, text, level, sections, prompt, form_locals>>

\* RAGChatbot.__init__
NewBot ==
  [client |-> "OpenAI", embedding_model |-> None, chunks |-> None,
   embeddings |-> None, repo_vindex |-> None]

NoReply == [code |-> 0, key |-> "", body |-> None]
NoGen ==
  [called |-> FALSE, raised |-> FALSE, content |-> None, prompt |-> None]

\* the guard with 'and' for 'or'
GuardPasses_And(bot) == ~(bot.repo_vindex = None /\ bot.embedding_model = None)

\* the guard of _vector_search (line 135) lets the call through
GuardPasses(bot) == ~(bot.repo_vindex = None \/ bot.embedding_model = None)

\* no helper method is being called directly and no questionnaire is being
\* processed
HelpersIdle ==
  /\ searches = <<>>
  /\ results = None
  /\ text = <<>>
  /\ level = 0
  /\ sections = None
  /\ prompt = None
  /\ use_case = None
  /\ visual_ai_type = None
  /\ model_type = None
  /\ priority = None
  /\ top_n = 0
  /\ data_dir = <<>>
  /\ recommendations = None
  /\ explanation = None

Init ==
  /\ rag_chatbot = None
  /\ chatbot_initialized = FALSE
  /\ chatbot_error = None
  /\ bots = <<>>
  /\ pc = [t \in Threads |-> "idle"]
  /\ query = [t \in Threads |-> <<>>]
  /\ this = [t \in Threads |-> 0]
  /\ data = [t \in Threads |-> None]
  /\ emb = [t \in Threads |-> None]
  /\ context = [t \in Threads |-> None]
  /\ response = [t \in Threads |-> None]
  /\ reply = [t \in Threads |-> NoReply]
  /\ exc = [t \in Threads |-> ""]
  /\ embedded = [t \in Threads |-> FALSE]
  /\ gen_out = [t \in Threads |-> NoGen]
  /\ arrived_failed = [t \in Threads |-> FALSE]
  /\ gen_failed = FALSE
  /\ init_started = 0
  /\ requests = 0
  /\ resp = [t \in Threads |-> None]
  /\ HelpersIdle

(***************************************************************************)
(* RAGChatbot._format_prompt.  Each literal line of the template is one    *)
(* element of the text; the query and the sections go in character by      *)
(* character.                                                              *)
(***************************************************************************)
PersonaLine ==
  "You are a friendly assistant for PickLLM, an AI-powered platform that helps users discover and compare Large Language Models."
BrevityLine ==
  "Answer user questions in a conversational, concise way (2-3 sentences max). Be helpful and warm, but keep responses brief and to the point."
QuestionLabel == "Question: "
ContextLabel == "Relevant context from PickLLM documentation:"
InstructionsLabel == "Instructions:"
DirectInstruction == "- Answer directly and concisely"
UseContextInstruction ==
  "- Use the context provided to give accurate information"
HonestyInstruction ==
  "- If the context doesn't contain the answer, politely say you don't have that specific information"
ShortInstruction == "- Keep your response under 3 sentences when possible"

\* doc.get('section', '')
SectionOrEmpty(doc) ==
  IF "section" \in DOMAIN doc THEN doc["section"] ELSE <<>>

\* line 142 with '\n' as the separator
RECURSIVE ContextText_OneNewline(_)
ContextText_OneNewline(context_docs) ==
  IF context_docs = <<>> THEN <<>>
  ELSE IF Len(context_docs) = 1 THEN SectionOrEmpty(context_docs[1])
  ELSE SectionOrEmpty(context_docs[1]) \o <<"\n">>
         \o ContextText_OneNewline(Tail(context_docs))

\* line 142: "\n\n".join([doc.get('section', '') for doc in context])
RECURSIVE ContextText(_)
ContextText(context_docs) ==
  IF context_docs = <<>> THEN <<>>
  ELSE IF Len(context_docs) = 1 THEN SectionOrEmpty(context_docs[1])
  ELSE SectionOrEmpty(context_docs[1]) \o <<"\n", "\n">>
         \o ContextText(Tail(context_docs))

\* lines 143-158: the f-string, then .strip()
FormatPrompt(q, context_docs) ==
  Strip(<<"\n", PersonaLine, "\n", "\n", BrevityLine, "\n", "\n",
          QuestionLabel>> \o q \o
        <<"\n", "\n", ContextLabel, "\n">> \o ContextText(context_docs) \o
        <<"\n", "\n", InstructionsLabel, "\n", DirectInstruction, "\n",
          UseContextInstruction, "\n", HonestyInstruction, "\n",
          ShortInstruction, "\n",
          " ", " ", " ", " ", " ", " ", " ", " ">>)

(***************************************************************************)
(* rag.py: RAGChatbot.chat() and _vector_search().  chat() returns to its  *)
(* caller at pc "chat_returned".                                           *)
(***************************************************************************)
\* the handler returning the exception's text instead of the literal
ChatExcept_ReturnsError(t, e) ==
  /\ exc' = [exc EXCEPT ![t] = e]
  /\ response' = [response EXCEPT ![t] = Some(e)]
  /\ pc' = [pc EXCEPT ![t] = "chat_returned"]

\* chat() lines 183-185: an exception e of the try block is caught
ChatExcept(t, e) ==
  /\ exc' = [exc EXCEPT ![t] = e]
  /\ response' = [response EXCEPT ![t] = Some(BotApology)]
  /\ pc' = [pc EXCEPT ![t] = "chat_returned"]

\* chat() line 166 -> _vector_search(), lines 135-138; calling a method of
\* None raises (AttributeError) like any other failure of the step
VectorSearchStep(t) ==
  /\ pc[t] = "vector_search"
  /\ LET bot == bots[this[t]]
     IN IF ~GuardPasses(bot)
        THEN /\ ChatExcept(t, NotInitializedError)
             /\ UNCHANGED <<context, embedded>>
        ELSE IF bot.embedding_model = None
        THEN /\ ChatExcept(t, "encode")
             /\ UNCHANGED <<context, embedded>>
        ELSE /\ embedded' = [embedded EXCEPT ![t] = TRUE]
             /\ IF bot.repo_vindex = None
                THEN /\ ChatExcept(t, "search")
                     /\ UNCHANGED context
                ELSE \/ /\ ChatExcept(t, "encode")
                        /\ UNCHANGED context
                     \/ /\ SearchMayRaise(Val(bot.repo_vindex), Encode(query[t]),
                                          NumResults)
                        /\ ChatExcept(t, "search")
                        /\ UNCHANGED context
                     \/ /\ ~SearchRaises(Val(bot.repo_vindex), Encode(query[t]),
                                         NumResults)
                        /\ context' = [context EXCEPT ![t] =
                             Some(SearchIndex(Val(bot.repo_vindex),
                                              Encode(query[t]), NumResults))]
                        /\ pc' = [pc EXCEPT ![t] = "generate"]
                        /\ UNCHANGED <<exc, response>>
  /\ UNCHANGED <<resp, helper_locals, app_globals, bots, query, this, init_locals, reply, gen_out,
                 arrived_failed, counters>>

\* a chat call that repeats the generation call after a failure
Generate_Retries(t) ==
  /\ pc[t] = "generate"
  /\ LET p == Some(FormatPrompt(query[t], Val(context[t])))
     IN \/ /\ gen_out' = [gen_out EXCEPT ![t] =
                  [called |-> TRUE, raised |-> TRUE, content |-> None,
                   prompt |-> p]]
           /\ gen_failed' = TRUE
           /\ IF gen_out[t].called
              THEN ChatExcept(t, "generation")
              ELSE UNCHANGED <<exc, response, pc>>
        \/ \E c \in GenContents :
             /\ gen_out' = [gen_out EXCEPT ![t] =
                  [called |-> TRUE, raised |-> FALSE, content |-> c,
                   prompt |-> p]]
             /\ response' = [response EXCEPT ![t] = c]
             /\ pc' = [pc EXCEPT ![t] = "chat_returned"]
             /\ UNCHANGED <<exc, gen_failed>>
  /\ UNCHANGED <<resp, helper_locals, app_globals, bots, query, this, init_locals, context, reply,
                 embedded, arrived_failed, init_started, requests>>

\* chat() lines 169-182: the prompt is assembled from the query and the search
\* results, and the completion call that is given it raises or answers with
\* content
Generate(t) ==
  /\ pc[t] = "generate"
  /\ LET p == Some(FormatPrompt(query[t], Val(context[t])))
     IN \/ /\ gen_out' = [gen_out EXCEPT ![t] =
                  [called |-> TRUE, raised |-> TRUE, content |-> None,
                   prompt |-> p]]
           /\ gen_failed' = TRUE
           /\ ChatExcept(t, "generation")
        \/ \E c \in GenContents :
             /\ gen_out' = [gen_out EXCEPT ![t] =
                  [called |-> TRUE, raised |-> FALSE, content |-> c,
                   prompt |-> p]]
             /\ response' = [response EXCEPT ![t] = c]
             /\ pc' = [pc EXCEPT ![t] = "chat_returned"]
             /\ UNCHANGED <<exc, gen_failed>>
  /\ UNCHANGED <<resp, helper_locals, app_globals, bots, query, this, init_locals, context, reply,
                 embedded, arrived_failed, init_started, requests>>

(***************************************************************************)
(* rag.py: RAGChatbot.initialize() and _build_index(), statement by        *)
(* statement on the object self.  initialize() returns to its caller at pc *)
(* "init_returned" and raises to it at pc "init_raised".                   *)
(***************************************************************************)
InitRaise(t, e) ==
  /\ exc' = [exc EXCEPT ![t] = e]
  /\ pc' = [pc EXCEPT ![t] = "init_raised"]

\* line 28: data = self._read_repo_data(...), as far as line 37:
\* requests.get answers or raises
ReadRepoData(t) ==
  /\ pc[t] = "read_repo_data"
  /\ \/ \E r \in Responses :
          /\ resp' = [resp EXCEPT ![t] = Some(r)]
          /\ pc' = [pc EXCEPT ![t] = "read_archive"]
          /\ UNCHANGED exc
     \/ /\ InitRaise(t, "download")
        /\ UNCHANGED resp
  /\ UNCHANGED <<helper_locals, app_globals, bots, this, data, emb, chat_locals,
                 arrived_failed, counters>>

\* lines 39-65 without the test of the status code
ReadArchive_AnyStatus(t) ==
  /\ pc[t] = "read_archive"
  /\ LET r == Val(resp[t])
     IN IF r.content = None
        THEN /\ InitRaise(t, BadZipFile)
             /\ UNCHANGED data
        ELSE /\ data' = [data EXCEPT ![t] = Some(ReadEntries(Val(r.content)))]
             /\ pc' = [pc EXCEPT ![t] = "process_documents"]
             /\ UNCHANGED exc
  /\ UNCHANGED <<resp, helper_locals, app_globals, bots, this, emb, chat_locals,
                 arrived_failed, counters>>

\* lines 39-65: the status test, zipfile.ZipFile, the loop over the entries;
\* _read_repo_data returns and line 28 assigns data
ReadArchive(t) ==
  /\ pc[t] = "read_archive"
  /\ LET r == Val(resp[t])
     IN IF r.status_code # 200
        THEN /\ InitRaise(t, DownloadFailed)
             /\ UNCHANGED data
        ELSE IF r.content = None
        THEN /\ InitRaise(t, BadZipFile)
             /\ UNCHANGED data
        ELSE /\ data' = [data EXCEPT ![t] = Some(ReadEntries(Val(r.content)))]
             /\ pc' = [pc EXCEPT ![t] = "process_documents"]
             /\ UNCHANGED exc
  /\ UNCHANGED <<resp, helper_locals, app_globals, bots, this, emb, chat_locals,
                 arrived_failed, counters>>

\* line 29: self.chunks = self._process_documents(data)
ProcessDocumentsStep(t) ==
  /\ pc[t] = "process_documents"
  /\ bots' = [bots EXCEPT ![this[t]].chunks =
                Some(ProcessDocuments(Val(data[t])))]
  /\ pc' = [pc EXCEPT ![t] = "load_model"]
  /\ UNCHANGED <<resp, helper_locals, app_globals, this, init_locals, chat_locals, exc,
                 arrived_failed, counters>>

\* line 123: self.embedding_model = SentenceTransformer(...)
LoadModel(t) ==
  /\ pc[t] = "load_model"
  /\ \/ /\ bots' = [bots EXCEPT ![this[t]].embedding_model =
                      Some("multi-qa-distilbert-cos-v1")]
        /\ pc' = [pc EXCEPT ![t] = "encode_chunks"]
        /\ UNCHANGED exc
     \/ /\ InitRaise(t, "model load")
        /\ UNCHANGED bots
  /\ UNCHANGED <<resp, helper_locals, app_globals, this, init_locals, chat_locals, arrived_failed,
                 counters>>

\* lines 124-127: one encode per chunk of self.chunks
EncodeChunks(t) ==
  /\ pc[t] = "encode_chunks"
  /\ LET cs == Val(bots[this[t]].chunks)
     IN \/ /\ emb' = [emb EXCEPT ![t] =
                        Some([i \in 1..Len(cs) |-> Encode(cs[i]["section"])])]
           /\ pc' = [pc EXCEPT ![t] = "store_embeddings"]
           /\ UNCHANGED exc
        \/ /\ Len(cs) > 0
           /\ InitRaise(t, "encode")
           /\ UNCHANGED emb
  /\ UNCHANGED <<resp, helper_locals, app_globals, bots, this, data, chat_locals, arrived_failed,
                 counters>>

\* line 128 keeping the array in the local only
StoreEmbeddings_Dropped(t) ==
  /\ pc[t] = "store_embeddings"
  /\ pc' = [pc EXCEPT ![t] = "new_index"]
  /\ UNCHANGED <<resp, helper_locals, app_globals, bots, this, init_locals, chat_locals, exc,
                 arrived_failed, counters>>

\* line 128: self.embeddings = np.array(embeddings)
StoreEmbeddings(t) ==
  /\ pc[t] = "store_embeddings"
  /\ bots' = [bots EXCEPT ![this[t]].embeddings = emb[t]]
  /\ pc' = [pc EXCEPT ![t] = "new_index"]
  /\ UNCHANGED <<resp, helper_locals, app_globals, this, init_locals, chat_locals, exc,
                 arrived_failed, counters>>

\* line 129: self.repo_vindex = VectorSearch()
CreateIndex(t) ==
  /\ pc[t] = "new_index"
  /\ bots' = [bots EXCEPT ![this[t]].repo_vindex = Some(NewIndex)]
  /\ pc' = [pc EXCEPT ![t] = "fit_index"]
  /\ UNCHANGED <<resp, helper_locals, app_globals, this, init_locals, chat_locals, exc,
                 arrived_failed, counters>>

\* line 130: self.repo_vindex.fit(self.embeddings, self.chunks)
FitIndexStep(t) ==
  /\ pc[t] = "fit_index"
  /\ bots' = [bots EXCEPT ![this[t]].repo_vindex =
                Some(FitIndex(Val(bots[this[t]].embeddings),
                              Val(bots[this[t]].chunks)))]
  /\ pc' = [pc EXCEPT ![t] = "init_returned"]
  /\ UNCHANGED <<resp, helper_locals, app_globals, this, init_locals, chat_locals, exc,
                 arrived_failed, counters>>

(***************************************************************************)
(* app.py: the /api/chat endpoint and get_chatbot().                       *)
(***************************************************************************)
Reply(code, key, message) == [code |-> code, key |-> key, body |-> Some(message)]

\* chat(), lines 148-156: get_chatbot() returned bot
GotChatbot(t, bot) ==
  IF bot = None
  THEN /\ reply' = [reply EXCEPT ![t] = Reply(200, "response", Unavailable)]
       /\ pc' = [pc EXCEPT ![t] = "done"]
       /\ this' = [this EXCEPT ![t] = 0]
  ELSE /\ this' = [this EXCEPT ![t] = Val(bot)]
       /\ pc' = [pc EXCEPT ![t] = "vector_search"]
       /\ UNCHANGED reply

\* an endpoint that fetches the chatbot before it validates the message
Arrive_GetsChatbotFirst(t, body) ==
  /\ pc[t] = "idle"
  /\ requests < MaxRequests
  /\ requests' = requests + 1
  /\ arrived_failed' =
       [arrived_failed EXCEPT ![t] = chatbot_initialized /\ chatbot_error # None]
  /\ IF body = None
     THEN /\ reply' = [reply EXCEPT ![t] = Reply(200, "response", EndpointApology)]
          /\ pc' = [pc EXCEPT ![t] = "done"]
          /\ UNCHANGED query
     ELSE /\ query' = [query EXCEPT ![t] = Strip(Val(body))]
          /\ pc' = [pc EXCEPT ![t] =
               IF chatbot_initialized THEN "get_chatbot_return"
               ELSE "construct"]
          /\ UNCHANGED reply
  /\ UNCHANGED <<resp, helper_locals, app_globals, bots, this, init_locals, context, response, exc,
                 embedded, gen_out, gen_failed, init_started>>

\* chat(), lines 140-148 and the handler of lines 162-169; get_chatbot(),
\* line 32
Arrive(t, body) ==
  /\ pc[t] = "idle"
  /\ requests < MaxRequests
  /\ requests' = requests + 1
  /\ arrived_failed' =
       [arrived_failed EXCEPT ![t] = chatbot_initialized /\ chatbot_error # None]
  /\ IF body = None
     THEN /\ reply' = [reply EXCEPT ![t] = Reply(200, "response", EndpointApology)]
          /\ pc' = [pc EXCEPT ![t] = "done"]
          /\ UNCHANGED query
     ELSE /\ query' = [query EXCEPT ![t] = Strip(Val(body))]
          /\ IF Strip(Val(body)) = <<>>
             THEN /\ reply' = [reply EXCEPT ![t] = Reply(400, "error", MessageRequired)]
                  /\ pc' = [pc EXCEPT ![t] = "done"]
             ELSE /\ pc' = [pc EXCEPT ![t] =
                       IF chatbot_initialized THEN "get_chatbot_return"
                       ELSE "construct"]
                  /\ UNCHANGED reply
  /\ UNCHANGED <<resp, helper_locals, app_globals, bots, this, init_locals, context, response, exc,
                 embedded, gen_out, gen_failed, init_started>>

\* get_chatbot(), line 33
GetChatbotReturn(t) ==
  /\ pc[t] = "get_chatbot_return"
  /\ GotChatbot(t, rag_chatbot)
  /\ UNCHANGED <<resp, helper_locals, app_globals, bots, init_locals, query, context, response, exc,
                 embedded, gen_out, arrived_failed, counters>>

\* get_chatbot(), lines 37-38: the import or the constructor may raise
Construct(t) ==
  /\ pc[t] = "construct"
  /\ \/ /\ bots' = (t :> NewBot) @@ bots
        /\ rag_chatbot' = Some(t)
        /\ pc' = [pc EXCEPT ![t] = "call_initialize"]
        /\ UNCHANGED exc
     \/ /\ InitRaise(t, "construct")
        /\ UNCHANGED <<bots, rag_chatbot>>
  /\ UNCHANGED <<resp, helper_locals, chatbot_initialized, chatbot_error, this, init_locals,
                 chat_locals, arrived_failed, counters>>

\* get_chatbot(), line 39: rag_chatbot.initialize() on the global's object
CallInitialize(t) ==
  /\ pc[t] = "call_initialize"
  /\ this' = [this EXCEPT ![t] = Val(rag_chatbot)]
  /\ init_started' = init_started + 1
  /\ pc' = [pc EXCEPT ![t] = "read_repo_data"]
  /\ UNCHANGED <<resp, helper_locals, app_globals, bots, init_locals, chat_locals, exc,
                 arrived_failed, gen_failed, requests>>

\* get_chatbot(), lines 40-42
InitializeSucceeded(t) ==
  /\ pc[t] = "init_returned"
  /\ chatbot_initialized' = TRUE
  /\ GotChatbot(t, rag_chatbot)
  /\ resp' = [resp EXCEPT ![t] = None]
  /\ data' = [data EXCEPT ![t] = None]
  /\ emb' = [emb EXCEPT ![t] = None]
  /\ UNCHANGED <<helper_locals, rag_chatbot, chatbot_error, bots, query, context, response,
                 exc, embedded, gen_out, arrived_failed, counters>>

\* the endpoint answering with the text of the exception
InitializeFailed_ExposesError(t) ==
  /\ pc[t] = "init_raised"
  /\ chatbot_error' = Some(exc[t])
  /\ chatbot_initialized' = TRUE
  /\ reply' = [reply EXCEPT ![t] = Reply(200, "response", exc[t])]
  /\ pc' = [pc EXCEPT ![t] = "done"]
  /\ this' = [this EXCEPT ![t] = 0]
  /\ exc' = [exc EXCEPT ![t] = ""]
  /\ resp' = [resp EXCEPT ![t] = None]
  /\ data' = [data EXCEPT ![t] = None]
  /\ emb' = [emb EXCEPT ![t] = None]
  /\ UNCHANGED <<helper_locals, rag_chatbot, bots, query, context, response,
                 embedded, gen_out, arrived_failed, counters>>

\* get_chatbot(), lines 43-47
InitializeFailed(t) ==
  /\ pc[t] = "init_raised"
  /\ chatbot_error' = Some(exc[t])
  /\ chatbot_initialized' = TRUE
  /\ GotChatbot(t, None)
  /\ exc' = [exc EXCEPT ![t] = ""]
  /\ resp' = [resp EXCEPT ![t] = None]
  /\ data' = [data EXCEPT ![t] = None]
  /\ emb' = [emb EXCEPT ![t] = None]
  /\ UNCHANGED <<helper_locals, rag_chatbot, bots, query, context, response, embedded,
                 gen_out, arrived_failed, counters>>

\* chat(), lines 156-161
Respond(t) ==
  /\ pc[t] = "chat_returned"
  /\ reply' = [reply EXCEPT ![t] =
                 [code |-> 200, key |-> "response", body |-> response[t]]]
  /\ pc' = [pc EXCEPT ![t] = "done"]
  /\ UNCHANGED <<resp, helper_locals, app_globals, bots, this, init_locals, query, context,
                 response, exc, embedded, gen_out, arrived_failed, counters>>

\* the reply is sent; the thread serves the next request
Finish(t) ==
  /\ pc[t] = "done"
  /\ pc' = [pc EXCEPT ![t] = "idle"]
  /\ query' = [query EXCEPT ![t] = <<>>]
  /\ this' = [this EXCEPT ![t] = 0]
  /\ context' = [context EXCEPT ![t] = None]
  /\ response' = [response EXCEPT ![t] = None]
  /\ reply' = [reply EXCEPT ![t] = NoReply]
  /\ exc' = [exc EXCEPT ![t] = ""]
  /\ embedded' = [embedded EXCEPT ![t] = FALSE]
  /\ gen_out' = [gen_out EXCEPT ![t] = NoGen]
  /\ arrived_failed' = [arrived_failed EXCEPT ![t] = FALSE]
  /\ UNCHANGED <<resp, helper_locals, app_globals, bots, init_locals, counters>>

(***************************************************************************)
(* The web application: concurrent requests to /api/chat.                  *)
(***************************************************************************)
Next ==
  \E t \in Threads :
    \/ \E body \in Bodies : Arrive(t, body)
    \/ GetChatbotReturn(t)
    \/ Construct(t)
    \/ CallInitialize(t)
    \/ ReadRepoData(t)
    \/ ReadArchive(t)
    \/ ProcessDocumentsStep(t)
    \/ LoadModel(t)
    \/ EncodeChunks(t)
    \/ StoreEmbeddings(t)
    \/ CreateIndex(t)
    \/ FitIndexStep(t)
    \/ InitializeSucceeded(t)
    \/ InitializeFailed(t)
    \/ VectorSearchStep(t)
    \/ Generate(t)
    \/ Respond(t)
    \/ Finish(t)

Spec == Init /\ [][Next]_vars

(***************************************************************************)
(* Direct use of one RAGChatbot object, as the tests and the __main__      *)
(* block of rag.py use it: bot = RAGChatbot(), then calls of initialize()  *)
(* and chat() one after the other.                                         *)
(***************************************************************************)
Driver == 1

InitBot ==
  /\ rag_chatbot = None
  /\ chatbot_initialized = FALSE
  /\ chatbot_error = None
  /\ bots = (Driver :> NewBot)
  /\ pc = [t \in Threads |-> "idle"]
  /\ query = [t \in Threads |-> <<>>]
  /\ this = [t \in Threads |-> Driver]
  /\ data = [t \in Threads |-> None]
  /\ emb = [t \in Threads |-> None]
  /\ context = [t \in Threads |-> None]
  /\ response = [t \in Threads |-> None]
  /\ reply = [t \in Threads |-> NoReply]
  /\ exc = [t \in Threads |-> ""]
  /\ embedded = [t \in Threads |-> FALSE]
  /\ gen_out = [t \in Threads |-> NoGen]
  /\ arrived_failed = [t \in Threads |-> FALSE]
  /\ gen_failed = FALSE
  /\ init_started = 0
  /\ requests = 0
  /\ resp = [t \in Threads |-> None]
  /\ HelpersIdle

\* bot.initialize(...)
TestInitialize(t) ==
  /\ t = Driver
  /\ pc[t] = "idle"
  /\ requests < MaxCalls
  /\ requests' = requests + 1
  /\ init_started' = init_started + 1
  /\ pc' = [pc EXCEPT ![t] = "read_repo_data"]
  /\ query' = [query EXCEPT ![t] = <<>>]
  /\ context' = [context EXCEPT ![t] = None]
  /\ response' = [response EXCEPT ![t] = None]
  /\ exc' = [exc EXCEPT ![t] = ""]
  /\ embedded' = [embedded EXCEPT ![t] = FALSE]
  /\ gen_out' = [gen_out EXCEPT ![t] = NoGen]
  /\ UNCHANGED <<resp, helper_locals, app_globals, bots, this, init_locals, reply, arrived_failed,
                 gen_failed>>

\* initialize() returned or raised to the caller
TestInitializeDone(t) ==
  /\ t = Driver
  /\ pc[t] \in {"init_returned", "init_raised"}
  /\ pc' = [pc EXCEPT ![t] = "idle"]
  /\ resp' = [resp EXCEPT ![t] = None]
  /\ data' = [data EXCEPT ![t] = None]
  /\ emb' = [emb EXCEPT ![t] = None]
  /\ UNCHANGED <<helper_locals, app_globals, bots, this, chat_locals, exc, arrived_failed,
                 counters>>

\* response = bot.chat(query): the query goes to chat() as it is
TestChat(t, m) ==
  /\ t = Driver
  /\ pc[t] = "idle"
  /\ requests < MaxCalls
  /\ requests' = requests + 1
  /\ query' = [query EXCEPT ![t] = m]
  /\ context' = [context EXCEPT ![t] = None]
  /\ response' = [response EXCEPT ![t] = None]
  /\ exc' = [exc EXCEPT ![t] = ""]
  /\ embedded' = [embedded EXCEPT ![t] = FALSE]
  /\ gen_out' = [gen_out EXCEPT ![t] = NoGen]
  /\ pc' = [pc EXCEPT ![t] = "vector_search"]
  /\ UNCHANGED <<resp, helper_locals, app_globals, bots, this, init_locals, reply, arrived_failed,
                 gen_failed, init_started>>

\* chat() returned to the caller
TestChatDone(t) ==
  /\ t = Driver
  /\ pc[t] = "chat_returned"
  /\ pc' = [pc EXCEPT ![t] = "idle"]
  /\ UNCHANGED <<resp, helper_locals, app_globals, bots, this, init_locals, chat_locals, exc,
                 arrived_failed, counters>>

NextBot ==
  \E t \in Threads :
    \/ TestInitialize(t)
    \/ TestInitializeDone(t)
    \/ \E m \in Messages : TestChat(t, m)
    \/ TestChatDone(t)
    \/ ReadRepoData(t)
    \/ ReadArchive(t)
    \/ ProcessDocumentsStep(t)
    \/ LoadModel(t)
    \/ EncodeChunks(t)
    \/ StoreEmbeddings(t)
    \/ CreateIndex(t)
    \/ FitIndexStep(t)
    \/ VectorSearchStep(t)
    \/ Generate(t)

SpecBot == InitBot /\ [][NextBot]_vars

(***************************************************************************)
(* Direct calls of _vector_search on one RAGChatbot, as the tests of       *)
(* TestRAGContextRetrieval make them, between calls of chat().             *)
(***************************************************************************)
\* the chatbot after initialize() has returned for the documents docs
BuiltBot(docs) ==
  LET chunks == ProcessDocuments(docs)
      embeddings == [i \in 1..Len(chunks) |-> Encode(chunks[i]["section"])]
  IN [client |-> "OpenAI",
      embedding_model |-> Some("multi-qa-distilbert-cos-v1"),
      chunks |-> Some(chunks),
      embeddings |-> Some(embeddings),
      repo_vindex |-> Some(FitIndex(embeddings, chunks))]

SearchQueries == {<<"a">>, <<"b">>, <<"a", "b">>}

InitSearch ==
  /\ rag_chatbot = None
  /\ chatbot_initialized = FALSE
  /\ chatbot_error = None
  /\ \E bot \in {NewBot} \cup {BuiltBot(s) : s \in Snapshots \cup {<<>>}} :
       bots = (Driver :> bot)
  /\ pc = [t \in Threads |-> "idle"]
  /\ query = [t \in Threads |-> <<>>]
  /\ this = [t \in Threads |-> Driver]
  /\ data = [t \in Threads |-> None]
  /\ emb = [t \in Threads |-> None]
  /\ context = [t \in Threads |-> None]
  /\ response = [t \in Threads |-> None]
  /\ reply = [t \in Threads |-> NoReply]
  /\ exc = [t \in Threads |-> ""]
  /\ embedded = [t \in Threads |-> FALSE]
  /\ gen_out = [t \in Threads |-> NoGen]
  /\ arrived_failed = [t \in Threads |-> FALSE]
  /\ gen_failed = FALSE
  /\ init_started = 0
  /\ requests = 0
  /\ resp = [t \in Threads |-> None]
  /\ HelpersIdle

\* the search taking the hits out of the index's payload
TestVectorSearch_Consuming(t, q, k) ==
  /\ t = Driver
  /\ pc[t] = "idle"
  /\ requests < MaxCalls
  /\ requests' = requests + 1
  /\ LET bot == bots[this[t]]
     IN IF ~GuardPasses(bot)
        THEN /\ exc' = [exc EXCEPT ![t] = NotInitializedError]
             /\ results' = None
             /\ UNCHANGED <<searches, bots>>
        ELSE \/ /\ SearchMayRaise(Val(bot.repo_vindex), Encode(q), k)
                /\ exc' = [exc EXCEPT ![t] = "search"]
                /\ results' = None
                /\ UNCHANGED <<searches, bots>>
             \/ /\ ~SearchRaises(Val(bot.repo_vindex), Encode(q), k)
                /\ LET index == Val(bot.repo_vindex)
                       found == SearchIndex(index, Encode(q), k)
                       hits == SearchPositions(index, Encode(q), k)
                       kept == SelectSeq([i \in 1..Len(index.docs) |-> i],
                                  LAMBDA i : \A n \in 1..Len(hits) : hits[n] # i)
                   IN /\ exc' = [exc EXCEPT ![t] = ""]
                      /\ results' = Some(found)
                      /\ searches' = Append(searches,
                           [query |-> q, num_results |-> k, results |-> found])
                      /\ bots' = [bots EXCEPT ![this[t]].repo_vindex =
                           Some([vectors |->
                                   Some([n \in 1..Len(kept) |->
                                           Val(index.vectors)[kept[n]]]),
                                 docs |-> [n \in 1..Len(kept) |->
                                             index.docs[kept[n]]]])]
  /\ UNCHANGED <<form_locals, resp, text, level, sections, prompt, app_globals, pc, query,
                 this, init_locals, context, response, reply, embedded,
                 gen_out, arrived_failed, gen_failed, init_started>>

\* context = chatbot._vector_search(q, num_results=k), lines 133-138: the
\* call returns a list or raises
TestVectorSearch(t, q, k) ==
  /\ t = Driver
  /\ pc[t] = "idle"
  /\ requests < MaxCalls
  /\ requests' = requests + 1
  /\ LET bot == bots[this[t]]
     IN IF ~GuardPasses(bot)
        THEN /\ exc' = [exc EXCEPT ![t] = NotInitializedError]
             /\ results' = None
             /\ UNCHANGED searches
        ELSE \/ /\ SearchMayRaise(Val(bot.repo_vindex), Encode(q), k)
                /\ exc' = [exc EXCEPT ![t] = "search"]
                /\ results' = None
                /\ UNCHANGED searches
             \/ /\ ~SearchRaises(Val(bot.repo_vindex), Encode(q), k)
                /\ LET found == SearchIndex(Val(bot.repo_vindex), Encode(q), k)
                   IN /\ exc' = [exc EXCEPT ![t] = ""]
                      /\ results' = Some(found)
                      /\ searches' = Append(searches,
                           [query |-> q, num_results |-> k, results |-> found])
  /\ UNCHANGED <<form_locals, resp, text, level, sections, prompt, app_globals, bots, pc,
                 query, this, init_locals, context, response, reply, embedded,
                 gen_out, arrived_failed, gen_failed, init_started>>

NextSearch ==
  \E t \in Threads :
    \/ \E q \in SearchQueries, k \in {1, 2} : TestVectorSearch(t, q, k)
    \/ \E m \in Messages : TestChat(t, m)
    \/ TestChatDone(t)
    \/ VectorSearchStep(t)
    \/ Generate(t)

SpecSearch == InitSearch /\ [][NextSearch]_vars

(***************************************************************************)
(* Direct calls of _split_markdown_by_level(text, level) on one chatbot.   *)
(* The texts are made of up to MaxLines lines.                             *)
(***************************************************************************)
MaxLines == 3

LineKinds ==
  {<<>>, <<"a">>, <<"#", " ", "T">>, <<"#", "#", " ", "A">>,
   <<"#", "#", " ", "B", " ">>, <<"#", "#", "#", " ", "C">>,
   <<"#", "#", " ">>, <<" ", "#", "#", " ", "A">>, <<"#", "#", "A">>}

\* '\n'.join(lines)
RECURSIVE JoinLines(_)
JoinLines(lines) ==
  IF lines = <<>> THEN <<>>
  ELSE IF Len(lines) = 1 THEN lines[1]
  ELSE lines[1] \o <<"\n">> \o JoinLines(Tail(lines))

Texts ==
  {JoinLines(ls) : ls \in UNION {[1..n -> LineKinds] : n \in 1..MaxLines}}
    \cup {TextAB, TextC, TextNoHeading}


InitSplit ==
  /\ rag_chatbot = None
  /\ chatbot_initialized = FALSE
  /\ chatbot_error = None
  /\ bots = (Driver :> BuiltBot(Snapshot1))
  /\ pc = [t \in Threads |-> "idle"]
  /\ query = [t \in Threads |-> <<>>]
  /\ this = [t \in Threads |-> Driver]
  /\ data = [t \in Threads |-> None]
  /\ emb = [t \in Threads |-> None]
  /\ context = [t \in Threads |-> None]
  /\ response = [t \in Threads |-> None]
  /\ reply = [t \in Threads |-> NoReply]
  /\ exc = [t \in Threads |-> ""]
  /\ embedded = [t \in Threads |-> FALSE]
  /\ gen_out = [t \in Threads |-> NoGen]
  /\ arrived_failed = [t \in Threads |-> FALSE]
  /\ gen_failed = FALSE
  /\ init_started = 0
  /\ requests = 0
  /\ resp = [t \in Threads |-> None]
  /\ searches = <<>>
  /\ results = None
  /\ text \in Texts
  /\ level \in {1, 2, 3}
  /\ sections = None
  /\ prompt = None
  /\ use_case = None
  /\ visual_ai_type = None
  /\ model_type = None
  /\ priority = None
  /\ top_n = 0
  /\ data_dir = <<>>
  /\ recommendations = None
  /\ explanation = None

\* the list sections kept from one call to the next instead of starting
\* empty (line 98)
SplitCall_KeepsSections(t) ==
  /\ t = Driver
  /\ pc[t] = "idle"
  /\ requests < MaxCalls
  /\ requests' = requests + 1
  /\ sections' = Some((IF sections = None THEN <<>> ELSE Val(sections))
                        \o SplitMarkdownByLevel(text, level))
  /\ UNCHANGED <<form_locals, resp, searches, results, text, level, prompt, app_globals,
                 bots, pc, query, this, init_locals, context, response, reply,
                 exc, embedded, gen_out, arrived_failed, gen_failed,
                 init_started>>

\* sections = chatbot._split_markdown_by_level(text, level), lines 82-118
SplitCall(t) ==
  /\ t = Driver
  /\ pc[t] = "idle"
  /\ requests < MaxCalls
  /\ requests' = requests + 1
  /\ sections' = Some(SplitMarkdownByLevel(text, level))
  /\ UNCHANGED <<form_locals, resp, searches, results, text, level, prompt, app_globals,
                 bots, pc, query, this, init_locals, context, response, reply,
                 exc, embedded, gen_out, arrived_failed, gen_failed,
                 init_started>>

NextSplit == \E t \in Threads : SplitCall(t)

SpecSplit == InitSplit /\ [][NextSplit]_vars

(***************************************************************************)
(* One RAGChatbot whose first initialize() has got the answer of the       *)
(* corpus host (line 37): any status, any body, archives of up to          *)
(* MaxEntries files.                                                       *)
(***************************************************************************)
MaxEntries == 2

\* the last entry is a file whose front matter has a key named section
EntryKinds ==
  {EntryReadme, EntryScript, EntryBroken, EntryEmpty, EntryIntro, EntryDocsC,
   EntryHeadingOnly, EntryBlankBody,
   [filename |-> <<"g", ".", "m", "d">>,
    post |-> Post([section |-> <<"g">>], <<"#", "#", " ", "A", "\n", "a">>)]}

Archives ==
  UNION {[1..n -> EntryKinds] : n \in 0..MaxEntries} \cup {Archive1, Archive2}

AllResponses ==
  {Response(st, c) : st \in {200, 404},
                     c \in {None} \cup {Some(a) : a \in Archives}}

InitIngest ==
  /\ rag_chatbot = None
  /\ chatbot_initialized = FALSE
  /\ chatbot_error = None
  /\ bots = (Driver :> NewBot)
  /\ pc = [t \in Threads |-> IF t = Driver THEN "read_archive" ELSE "idle"]
  /\ query = [t \in Threads |-> <<>>]
  /\ this = [t \in Threads |-> Driver]
  /\ data = [t \in Threads |-> None]
  /\ emb = [t \in Threads |-> None]
  /\ context = [t \in Threads |-> None]
  /\ response = [t \in Threads |-> None]
  /\ reply = [t \in Threads |-> NoReply]
  /\ exc = [t \in Threads |-> ""]
  /\ embedded = [t \in Threads |-> FALSE]
  /\ gen_out = [t \in Threads |-> NoGen]
  /\ arrived_failed = [t \in Threads |-> FALSE]
  /\ gen_failed = FALSE
  /\ init_started = 1
  /\ requests = 1
  /\ \E r \in AllResponses :
       resp = [t \in Threads |-> IF t = Driver THEN Some(r) ELSE None]
  /\ HelpersIdle

SpecIngest == InitIngest /\ [][NextBot]_vars

(***************************************************************************)
(* Direct calls of _format_prompt, as the tests of                         *)
(* TestRAGPromptAndConsistency make them.                                  *)
(***************************************************************************)
PromptQueries ==
  {<<>>, <<"a">>, <<"a", " ", "b", "?">>, <<" ", "a", "\n">>,
   <<"#", "#", " ", "A">>}

PromptChunks ==
  {[filename |-> NameReadme, section |-> <<"#", "#", " ", "A", "\n", "\n", "a">>],
   [filename |-> NameReadme, section |-> <<"#", "#", " ", "B">>],
   [filename |-> NameEmpty]}

PromptContexts == UNION {[1..n -> PromptChunks] : n \in 0..NumResults}

InitPrompt ==
  /\ rag_chatbot = None
  /\ chatbot_initialized = FALSE
  /\ chatbot_error = None
  /\ bots = (Driver :> BuiltBot(Snapshot1))
  /\ pc = [t \in Threads |-> "idle"]
  /\ \E q \in PromptQueries :
       query = [t \in Threads |-> IF t = Driver THEN q ELSE <<>>]
  /\ this = [t \in Threads |-> Driver]
  /\ data = [t \in Threads |-> None]
  /\ emb = [t \in Threads |-> None]
  /\ \E c \in PromptContexts :
       context = [t \in Threads |-> IF t = Driver THEN Some(c) ELSE None]
  /\ response = [t \in Threads |-> None]
  /\ reply = [t \in Threads |-> NoReply]
  /\ exc = [t \in Threads |-> ""]
  /\ embedded = [t \in Threads |-> FALSE]
  /\ gen_out = [t \in Threads |-> NoGen]
  /\ arrived_failed = [t \in Threads |-> FALSE]
  /\ gen_failed = FALSE
  /\ init_started = 0
  /\ requests = 0
  /\ resp = [t \in Threads |-> None]
  /\ HelpersIdle

\* prompt = chatbot._format_prompt(query, context), lines 140-158
FormatPromptCall(t) ==
  /\ t = Driver
  /\ pc[t] = "idle"
  /\ requests < MaxCalls
  /\ requests' = requests + 1
  /\ prompt' = Some(FormatPrompt(query[t], Val(context[t])))
  /\ UNCHANGED <<form_locals, resp, searches, results, text, level, sections, app_globals,
                 bots, pc, query, this, init_locals, context, response, reply,
                 exc, embedded, gen_out, arrived_failed, gen_failed,
                 init_started>>

NextPrompt == \E t \in Threads : FormatPromptCall(t)

SpecPrompt == InitPrompt /\ [][NextPrompt]_vars

(***************************************************************************)
(* RecommendationExplainer (src/src/recommendation_explainer.py) called    *)
(* directly, as tests/test_recommendation_explainer.py does.  The use case *)
(* and the visual AI type are texts (sequences of characters) here, since  *)
(* the explainer reformats them.                                           *)
(***************************************************************************)
MaxRecs == 2

\* lines 82, 104 and 133: x.replace('_', ' ').title(); title() makes a cased
\* letter upper case after an uncased character (or at the start) and lower
\* case after a cased one
Formatted(s) ==
  LET UpperChar(c) == CASE c = "a" -> "A" [] c = "b" -> "B" [] OTHER -> c
      LowerChar(c) == CASE c = "A" -> "a" [] c = "B" -> "b" [] OTHER -> c
      spaced == [i \in 1..Len(s) |-> IF s[i] = "_" THEN " " ELSE s[i]]
  IN [i \in 1..Len(spaced) |->
        IF i > 1 /\ spaced[i - 1] \in {"a", "b", "A", "B"}
        THEN LowerChar(spaced[i])
        ELSE UpperChar(spaced[i])]

RECURSIVE JoinRecText(_, _)
\* lines 85-95: "\n".join(rec_text), over the first n recommendations
JoinRecText(recs, n) ==
  LET rec == recs[n]
      rec_text ==
        <<(<<"1", "2", "3", "4", "5", "6", "7", "8", "9">>)[n], ". ",
          rec["model"], " by ", rec["organization"], "\n",
          "   - Arena Score: ", rec["arena_score"], "\n",
          "   - Votes: ", rec["votes"], "\n",
          "   - License: ", rec["license"], "\n",
          "   - Knowledge Cutoff: ",
          IF "knowledge_cutoff" \in DOMAIN rec THEN rec["knowledge_cutoff"]
          ELSE "N/A">>
  IN IF n = 0 THEN <<>>
     ELSE IF n = 1 THEN rec_text
     ELSE JoinRecText(recs, n - 1) \o <<"\n">> \o rec_text

\* _build_prompt raises: None has no replace() (line 82), a recommendation
\* lacks a key that is subscripted (lines 88-91)
BuildPromptRaises(uc, recs) ==
  \/ uc = None
  \/ \E i \in DOMAIN recs :
       ~({"model", "organization", "arena_score", "votes", "license"}
           \subseteq DOMAIN recs[i])

\* lines 72-129, when it does not raise
BuildPrompt(uc, recs, vat, mt) ==
  LET model_pref ==
        CASE Val(mt) = "open_only" -> "Open-source models only"
          [] Val(mt) = "proprietary_only_enterprise"
               -> "Proprietary/Enterprise models only"
          [] Val(mt) = "no_preference" -> "No preference on model type"
          [] OTHER -> "No preference"
  IN <<"A user is looking for LLM recommendations based on the following requirements:",
       "\n", "\n", "**Use Case**: ">> \o Formatted(Val(uc)) \o <<"\n">>
     \o (IF vat # None /\ Val(vat) # <<>>
           THEN <<"**Visual AI Type**: ">> \o Formatted(Val(vat)) \o <<"\n">>
           ELSE <<>>)
     \o (IF mt # None /\ Val(mt) # ""
           THEN <<"**Model Preference**: ", model_pref, "\n">>
           ELSE <<>>)
     \o <<"\n",
          "Based on their requirements, we recommended these top 3 models from the LMSYS Chatbot Arena leaderboard:",
          "\n", "\n">>
     \o JoinRecText(recs, Len(recs))
     \o <<"\n", "\n",
          "Please write a 3-paragraph explanation following this structure: ...">>

FallbackLead == "Based on your requirement for "
FallbackSource ==
  ", we've selected the top-performing models from the LMSYS Chatbot Arena leaderboard."

\* lines 131-139, when it does not raise; the recommendations are not read
FallbackExplanation(uc, recs) ==
  <<FallbackLead>> \o Formatted(Val(uc))
  \o <<FallbackSource,
       " These models have been rigorously tested through thousands of community evaluations, ensuring they meet high standards for real-world performance.",
       "\n", "\n",
       "The recommended models represent the best options currently available, ranked by their Arena Score which reflects head-to-head comparisons in blind tests. Each model has received substantial community validation through voting, providing confidence in their capabilities for your specific use case.",
       "\n", "\n",
       "These rankings are continuously updated based on the latest leaderboard data, ensuring you get recommendations based on current performance metrics and community feedback.">>

\* the recommendation lists of a call: complete entries, entries without a
\* knowledge cutoff, entries without a license
RecLists ==
  LET kinds ==
        {[model |-> "GPT-4", organization |-> "OpenAI", arena_score |-> "1250",
          votes |-> "50000", license |-> "Proprietary",
          knowledge_cutoff |-> "2023/09"],
         [model |-> "Llama", organization |-> "Meta", arena_score |-> "1200",
          votes |-> "40000", license |-> "MIT"],
         [model |-> "Gemini-Pro", organization |-> "Google",
          arena_score |-> "1230", votes |-> "45000"]}
  IN UNION {[1..n -> kinds] : n \in 0..MaxRecs}

\* the arguments of one generate_explanation call
InitExplain ==
  /\ rag_chatbot = None
  /\ chatbot_initialized = FALSE
  /\ chatbot_error = None
  /\ bots = (Driver :> NewBot)
  /\ pc = [t \in Threads |-> "idle"]
  /\ query = [t \in Threads |-> <<>>]
  /\ this = [t \in Threads |-> Driver]
  /\ data = [t \in Threads |-> None]
  /\ emb = [t \in Threads |-> None]
  /\ context = [t \in Threads |-> None]
  /\ response = [t \in Threads |-> None]
  /\ reply = [t \in Threads |-> NoReply]
  /\ exc = [t \in Threads |-> ""]
  /\ embedded = [t \in Threads |-> FALSE]
  /\ gen_out = [t \in Threads |-> NoGen]
  /\ arrived_failed = [t \in Threads |-> FALSE]
  /\ gen_failed = FALSE
  /\ init_started = 0
  /\ requests = 0
  /\ resp = [t \in Threads |-> None]
  /\ searches = <<>>
  /\ results = <<>>
  /\ text = <<>>
  /\ level = 0
  /\ sections = None
  /\ prompt = None
  /\ use_case \in
       {None, Some(<<>>), Some(<<"a", "_", "b">>), Some(<<"A", "B", " ", "a">>)}
  /\ visual_ai_type \in {None, Some(<<>>), Some(<<"b", "_", "a">>)}
  /\ model_type \in
       {None, Some(""), Some("open_only"), Some("proprietary_only_enterprise"),
        Some("no_preference"), Some("other")}
  /\ priority = None
  /\ top_n = 0
  /\ data_dir = <<>>
  /\ recommendations \in {Some(r) : r \in RecLists}
  /\ explanation = None

\* what generate_explanation leaves alone
ExplainFrame ==
  UNCHANGED <<app_globals, bots, query, this, init_locals, context, response,
              reply, embedded, arrived_failed, gen_failed, init_started,
              requests, resp, searches, results, text, level, sections,
              use_case, visual_ai_type, model_type, priority, top_n, data_dir,
              recommendations>>

\* line 41: prompt = self._build_prompt(...), outside the try block
BuildPromptStep(t) ==
  /\ t = Driver
  /\ pc[t] = "idle"
  /\ explanation = None
  /\ exc[t] = ""
  /\ IF BuildPromptRaises(use_case, Val(recommendations))
       THEN /\ pc' = [pc EXCEPT ![t] = "explain_raised"]
            /\ exc' = [exc EXCEPT ![t] =
                 IF use_case = None THEN "AttributeError" ELSE "KeyError"]
            /\ prompt' = None
       ELSE /\ pc' = [pc EXCEPT ![t] = "create_completion"]
            /\ exc' = exc
            /\ prompt' = Some(BuildPrompt(use_case, Val(recommendations),
                                          visual_ai_type, model_type))
  /\ UNCHANGED <<gen_out, explanation>>
  /\ ExplainFrame

\* lines 43-65: the completion call answers
CompletionReturns(t) ==
  /\ pc[t] = "create_completion"
  /\ \E c \in GenContents :
       /\ gen_out' = [gen_out EXCEPT
            ![t] = [called |-> TRUE, raised |-> FALSE, content |-> c,
                    prompt |-> prompt]]
       /\ explanation' = Some(c)
  /\ pc' = [pc EXCEPT ![t] = "explained"]
  /\ UNCHANGED <<exc, prompt>>
  /\ ExplainFrame

\* a handler that lets the exception of the completion call through
CompletionRaises_Propagates(t) ==
  /\ pc[t] = "create_completion"
  /\ gen_out' = [gen_out EXCEPT
       ![t] = [called |-> TRUE, raised |-> TRUE, content |-> None,
               prompt |-> prompt]]
  /\ pc' = [pc EXCEPT ![t] = "explain_raised"]
  /\ exc' = [exc EXCEPT ![t] = "APIError"]
  /\ UNCHANGED <<explanation, prompt>>
  /\ ExplainFrame

\* lines 43-62 raise, lines 67-70 handle it: the fallback is computed inside
\* the handler, so what it raises leaves generate_explanation;
\* _get_fallback_explanation raises when the use case is None, which has no
\* replace() (line 133)
CompletionRaises(t) ==
  /\ pc[t] = "create_completion"
  /\ gen_out' = [gen_out EXCEPT
       ![t] = [called |-> TRUE, raised |-> TRUE, content |-> None,
               prompt |-> prompt]]
  /\ IF use_case = None
       THEN /\ pc' = [pc EXCEPT ![t] = "explain_raised"]
            /\ exc' = [exc EXCEPT ![t] = "AttributeError"]
            /\ explanation' = explanation
       ELSE /\ pc' = [pc EXCEPT ![t] = "explained"]
            /\ exc' = exc
            /\ explanation' =
                 Some(Some(FallbackExplanation(use_case, Val(recommendations))))
  /\ UNCHANGED prompt
  /\ ExplainFrame

NextExplain ==
  \E t \in Threads :
    \/ BuildPromptStep(t)
    \/ CompletionReturns(t)
    \/ CompletionRaises(t)

SpecExplain == InitExplain /\ [][NextExplain]_vars

(***************************************************************************)
(* RecommendationEngine (src/src/recommendation_engine.py) called          *)
(* directly.  The questionnaire choices are strings; the data directory    *)
(* gives for each CSV file None (missing or unreadable) or its rows.  A    *)
(* row has the columns the engine reads; pricing is None where             *)
(* pd.to_numeric coerces it to NaN.                                        *)
(***************************************************************************)
MaxRows == 3
MaxTopN == 3

\* the file names of lines 34-48
CsvFiles ==
  {"lmarena_text_with_pricing_or.csv", "lmarena_webdev_with_pricing_or.csv",
   "lmarena_vision_with_pricing_or.csv", "lmarena_image_with_pricing.csv",
   "lmarena_image-edit_with_pricing.csv"}

\* lines 50-66, with use_case_mapping.get(use_case, []) of lines 34-41 and
\* visual_ai_mapping.get(visual_ai_type, []) of lines 44-48
GetRelevantCsvFiles(uc, vat) ==
  IF uc = Some("visual_ai") /\ vat # None /\ vat # Some("")
  THEN CASE vat = Some("image_understanding")
              -> <<"lmarena_vision_with_pricing_or.csv">>
         [] vat = Some("image_generation")
              -> <<"lmarena_image_with_pricing.csv">>
         [] vat = Some("image_editing")
              -> <<"lmarena_image-edit_with_pricing.csv">>
         [] OTHER -> <<>>
  ELSE IF uc = None THEN <<>>
  ELSE CASE Val(uc) \in {"conversational_knowledge", "productivity_information",
                         "creative_content", "advanced_automation"}
              -> <<"lmarena_text_with_pricing_or.csv">>
         [] Val(uc) = "technical_developer"
              -> <<"lmarena_webdev_with_pricing_or.csv">>
         [] Val(uc) = "visual_ai"
              -> <<"lmarena_vision_with_pricing_or.csv",
                   "lmarena_image_with_pricing.csv",
                   "lmarena_image-edit_with_pricing.csv">>
         [] OTHER -> <<>>

\* lines 78-93: the files that exist and can be read
LoadLeaderboardData(dir, csv_files) ==
  {csv_files[i] : i \in {j \in 1..Len(csv_files) : dir[csv_files[j]] # None}}

\* lines 132-140 with the open_only filter keeping every row
KeepsRow_OpenKeepsAll(row, mt) ==
  IF mt = Some("proprietary_only_enterprise") THEN row.license = "Proprietary"
  ELSE TRUE

\* lines 132-140: the row passes the model type filter
KeepsRow(row, mt) ==
  IF mt = Some("open_only") THEN row.license # "Proprietary"
  ELSE IF mt = Some("proprietary_only_enterprise")
  THEN row.license = "Proprietary"
  ELSE TRUE

\* lines 147-157: the orders sort_values(..., ascending=True) may leave the
\* rows in.  NaN goes last; the default sort is not stable, so rows with equal
\* keys come in any order
SortedOrders(rows, pr) ==
  LET SortsBefore(i, j) ==
        IF pr = Some("lower_cost")
        THEN \/ rows[j].pricing = None
             \/ /\ rows[i].pricing # None
                /\ Val(rows[i].pricing) <= Val(rows[j].pricing)
        ELSE rows[i].rank <= rows[j].rank
  IN {p \in [1..Len(rows) -> 1..Len(rows)] :
        /\ \A i, j \in 1..Len(rows) : i # j => p[i] # p[j]
        /\ \A i, j \in 1..Len(rows) : i < j => SortsBefore(p[i], p[j])}

\* lines 164-182: the fields of a recommendation that depend on the row; the
\* logo comes from org_to_logo (lines 11-31)
ModelInfo(row) ==
  [rank |-> row.rank, model |-> row.model, organization |-> row.organization,
   license |-> row.license,
   logo_url |->
     CASE row.organization = "OpenAI"
            -> <<"/static/images/logos/", "openai.png">>
       [] row.organization = "Meta" -> <<"/static/images/logos/", "meta.png">>
       [] OTHER -> <<>>,
   pricing |-> row.pricing]

\* lines 95-186: the lists the call may return
GetTopRecommendations(uc, vat, mt, pr, n, dir) ==
  LET csv_files == GetRelevantCsvFiles(uc, vat)
  IN IF csv_files = <<>> THEN {<<>>}
     ELSE IF LoadLeaderboardData(dir, csv_files) = {} THEN {<<>>}
     ELSE IF dir[csv_files[1]] = None THEN {<<>>}
     ELSE IF Val(dir[csv_files[1]]) = <<>> THEN {<<>>}
     ELSE LET df == SelectSeq(Val(dir[csv_files[1]]),
                              LAMBDA row : KeepsRow(row, mt))
              head == IF n <= Len(df) THEN n ELSE Len(df)
          IN IF df = <<>> THEN {<<>>}
             ELSE {[i \in 1..head |-> ModelInfo(df[p[i]])] :
                     p \in SortedOrders(df, pr)}

RowGpt ==
  [rank |-> 1, model |-> "GPT", organization |-> "OpenAI",
   license |-> "Proprietary", pricing |-> Some(3)]
RowLlama ==
  [rank |-> 2, model |-> "Llama", organization |-> "Meta",
   license |-> "MIT", pricing |-> None]
RowAcme ==
  [rank |-> 2, model |-> "Acme-1", organization |-> "Acme",
   license |-> "Proprietary", pricing |-> Some(1)]

\* the data directories: every file present, none present, or every file but
\* the vision one, the files that are present holding the same rows
DataDirs ==
  {[f \in CsvFiles |-> IF f \in present THEN Some(rows) ELSE None] :
     present \in {CsvFiles, {},
                  CsvFiles \ {"lmarena_vision_with_pricing_or.csv"}},
     rows \in UNION {[1..n -> {RowGpt, RowLlama, RowAcme}] : n \in 0..MaxRows}}

\* the arguments of one get_top_recommendations call and the data directory
InitRecommend ==
  /\ rag_chatbot = None
  /\ chatbot_initialized = FALSE
  /\ chatbot_error = None
  /\ bots = (Driver :> NewBot)
  /\ pc = [t \in Threads |-> "idle"]
  /\ query = [t \in Threads |-> <<>>]
  /\ this = [t \in Threads |-> Driver]
  /\ data = [t \in Threads |-> None]
  /\ emb = [t \in Threads |-> None]
  /\ context = [t \in Threads |-> None]
  /\ response = [t \in Threads |-> None]
  /\ reply = [t \in Threads |-> NoReply]
  /\ exc = [t \in Threads |-> ""]
  /\ embedded = [t \in Threads |-> FALSE]
  /\ gen_out = [t \in Threads |-> NoGen]
  /\ arrived_failed = [t \in Threads |-> FALSE]
  /\ gen_failed = FALSE
  /\ init_started = 0
  /\ requests = 0
  /\ resp = [t \in Threads |-> None]
  /\ searches = <<>>
  /\ results = <<>>
  /\ text = <<>>
  /\ level = 0
  /\ sections = None
  /\ prompt = None
  /\ use_case \in
       {None, Some("technical_developer"), Some("visual_ai"), Some("gaming")}
  /\ visual_ai_type \in {None, Some("image_generation"), Some("video")}
  /\ model_type \in
       {Some("no_preference"), Some("open_only"),
        Some("proprietary_only_enterprise")}
  /\ priority \in {None, Some("lower_cost")}
  /\ top_n \in 0..MaxTopN
  /\ data_dir \in DataDirs
  /\ recommendations = None
  /\ explanation = None

\* recommendations = engine.get_top_recommendations(use_case, visual_ai_type,
\* model_type, priority, top_n), lines 95-186
GetTopRecommendationsCall(t) ==
  /\ t = Driver
  /\ pc[t] = "idle"
  /\ recommendations = None
  /\ \E recs \in GetTopRecommendations(use_case, visual_ai_type, model_type,
                                      priority, top_n, data_dir) :
       recommendations' = Some(recs)
  /\ UNCHANGED <<app_globals, bots, pc, query, this, init_locals, context,
                 response, reply, exc, embedded, gen_out, arrived_failed,
                 gen_failed, init_started, requests, resp, searches, results,
                 text, level, sections, prompt, use_case, visual_ai_type,
                 model_type, priority, top_n, data_dir, explanation>>

NextRecommend == \E t \in Threads : GetTopRecommendationsCall(t)

SpecRecommend == InitRecommend /\ [][NextRecommend]_vars

(***************************************************************************)
(* Properties.                                                             *)
(***************************************************************************)
InitializePcs ==
  {"read_repo_data", "read_archive", "process_documents", "load_model", "encode_chunks",
   "store_embeddings", "new_index", "fit_index"}

\* a thread is inside get_chatbot()'s try block
InGetChatbotTry(t) ==
  pc[t] \in InitializePcs \cup
            {"construct", "call_initialize", "init_returned", "init_raised"}

\* the lifecycle state the flags of app.py stand for
Lifecycle ==
  IF chatbot_initialized
  THEN (IF chatbot_error = None THEN "Ready" ELSE "Failed")
  ELSE (IF \E t \in Threads : InGetChatbotTry(t) THEN "Initializing"
        ELSE "Uninitialized")

AllBuilt(bot) ==
  /\ bot.chunks # None
  /\ bot.embeddings # None
  /\ bot.repo_vindex # None
  /\ bot.embedding_model # None

HoldsBuiltIndex(bot) ==
  IF bot.repo_vindex = None THEN FALSE
  ELSE Val(bot.repo_vindex).vectors # None

Aligned(bot) ==
  /\ bot.chunks # None
  /\ bot.embeddings # None
  /\ Len(Val(bot.embeddings)) = Len(Val(bot.chunks))
  /\ \A i \in 1..Len(Val(bot.chunks)) :
       Val(bot.embeddings)[i] = Encode(Val(bot.chunks)[i]["section"])
  /\ Val(bot.repo_vindex).docs = Val(bot.chunks)
  /\ Val(bot.repo_vindex).vectors = bot.embeddings

\* C1: at most one RAGChatbot.initialize() is ever started, whatever the
\* interleaving of the requests that arrive before initialization finished.
C1_AtMostOneInitialize == init_started <= 1

\* C2: once an initialization failure is recorded, no initialize() call is
\* started and no download, model load or index build step is run any more.
C2_NoInitializationAfterFailure ==
  [][(chatbot_initialized /\ chatbot_error # None) =>
       /\ init_started' = init_started
       /\ \A t \in Threads :
            pc[t] \in {"read_repo_data", "load_model", "new_index"}
              => pc'[t] = pc[t]]_vars

\* C3: every request with a non-empty message that arrives after the
\* initialization failure was recorded is answered with the fixed
\* unavailability literal.
C3_FailedAlwaysUnavailable ==
  \A t \in Threads :
    (pc[t] = "done" /\ arrived_failed[t] /\ query[t] # <<>>)
      => reply[t] = Reply(200, "response", Unavailable)

\* C4: whenever RAGChatbot.chat returns, it returns a non-empty string.
C4_ChatReturnsNonEmptyString ==
  \A t \in Threads :
    pc[t] = "chat_returned" =>
      (IF response[t] = None THEN FALSE ELSE Val(response[t]) # "")

\* C5: a chat call whose generation call raises returns the fixed apology and
\* changes neither the chatbot objects nor the lifecycle flags; a chat call
\* whose generation call answers returns exactly the generated content.
C5_GenerationFailureIsLocal ==
  [][\A t \in Threads :
       (pc[t] = "generate" /\ pc'[t] = "chat_returned") =>
         /\ bots' = bots
         /\ app_globals' = app_globals
         /\ IF gen_out'[t].raised
            THEN response'[t] = Some(BotApology)
            ELSE response'[t] = gen_out'[t].content]_vars

\* C5 witness: after some generation call has raised, a chat call on a chatbot
\* that is still usable returns the text its generation call produced.
C5_Witness ==
  \E t \in Threads :
    /\ pc[t] = "chat_returned"
    /\ gen_failed
    /\ gen_out[t].called /\ ~gen_out[t].raised
    /\ gen_out[t].content = Some("PickLLM recommends models.")
    /\ response[t] = gen_out[t].content
    /\ HoldsBuiltIndex(bots[this[t]])

\* C6: for an empty or whitespace-only query no embedding call, no index
\* search and no generation call is made.
C6_BlankQueryDoesNoRetrieval ==
  \A t \in Threads :
    Strip(query[t]) = <<>> =>
      (~embedded[t] /\ context[t] = None /\ ~gen_out[t].called)

C8_LifecycleTransitions ==
  [][\/ Lifecycle' = Lifecycle
     \/ <<Lifecycle, Lifecycle'>> \in
          {<<"Uninitialized", "Initializing">>,
           <<"Initializing", "Ready">>,
           <<"Initializing", "Failed">>}]_vars

\* C9: whenever a chatbot holds a built index and no initialize() is running
\* on it, its embeddings and chunks have the same length, embedding i is the
\* embedding of chunk i, and the index holds exactly these two sequences.
C9_AlignmentInvariant ==
  \A b \in DOMAIN bots :
    (/\ HoldsBuiltIndex(bots[b])
     /\ ~\E t \in Threads : pc[t] \in InitializePcs /\ this[t] = b)
      => Aligned(bots[b])

\* C10: when initialize() returns, chunks, embeddings, index and embedding
\* model of the chatbot are all set; and a chatbot that the guard of
\* _vector_search lets through has all four set, also after an initialize()
\* that raised.
C10_InitializedFieldsSet ==
  /\ \A t \in Threads :
       pc[t] = "init_returned" => AllBuilt(bots[this[t]])
  /\ \A b \in DOMAIN bots :
       (bots[b].repo_vindex # None /\ bots[b].embedding_model # None)
         => AllBuilt(bots[b])

\* C10 witness: one initialize() has just returned with everything built
\* while another one raised in the encoding pass and left a chatbot that the
\* guard refuses.
C10_Witness ==
  \E t, u \in Threads :
    /\ pc[t] = "init_returned"
    /\ AllBuilt(bots[this[t]])
    /\ pc[u] = "init_raised"
    /\ exc[u] = "encode"
    /\ bots[this[u]].embedding_model # None
    /\ bots[this[u]].repo_vindex = None

RECURSIVE SplitLines(_)
SplitLines(s) ==
  IF \A i \in 1..Len(s) : s[i] # "\n" THEN <<s>>
  ELSE LET p == SetMin({i \in 1..Len(s) : s[i] = "\n"})
       IN <<SubSeq(s, 1, p - 1)>> \o SplitLines(SubSeq(s, p + 1, Len(s)))

\* the line is a heading of level n: n markers, a space, then heading text
IsHeading(line, n) ==
  /\ Len(line) >= n + 2
  /\ \A i \in 1..n : line[i] = "#"
  /\ line[n + 1] = " "

\* the positions of the lines of level n headings, in document order
HeadingLines(lines, n) ==
  SelectSeq([i \in 1..Len(lines) |-> i], LAMBDA i : IsHeading(lines[i], n))

\* the lines after the k-th heading line, up to the next heading line
BodyLines(lines, hs, k) ==
  SubSeq(lines, hs[k] + 1,
         IF k < Len(hs) THEN hs[k + 1] - 1 ELSE Len(lines))

\* the lines that are not blank, each one trimmed
RECURSIVE NonBlank(_)
NonBlank(lines) ==
  IF lines = <<>> THEN <<>>
  ELSE (IF Strip(Head(lines)) = <<>> THEN <<>> ELSE <<Strip(Head(lines))>>)
         \o NonBlank(Tail(lines))

\* C14: a split at level N gives one chunk per level-N heading line, in
\* document order; chunk k starts with heading k and holds exactly the
\* non-blank lines between heading k and the next level-N heading, headings
\* of other levels included; nothing before the first level-N heading is in
\* a chunk, and without a level-N heading the result is empty.
C14_OneChunkPerHeading ==
  sections # None =>
    LET lines == SplitLines(text)
        hs == HeadingLines(lines, level)
        out == Val(sections)
    IN /\ Len(out) = Len(hs)
       /\ \A k \in 1..Len(hs) :
            /\ SplitLines(out[k])[1] = Strip(lines[hs[k]])
            /\ NonBlank(SplitLines(out[k])) =
                 <<Strip(lines[hs[k]])>> \o NonBlank(BodyLines(lines, hs, k))

\* C14 witness: a text with a preamble line, a level-2 heading and a level-3
\* heading inside its section was split at level 2 into one chunk.
C14_Witness ==
  /\ sections # None
  /\ level = 2
  /\ text = JoinLines(<<<<"a">>, <<"#", "#", " ", "A">>,
                        <<"#", "#", "#", " ", "C">>>>)
  /\ Len(Val(sections)) = 1

\* C15: the chunk of a level-N heading followed by non-blank text is the
\* trimmed heading line, a blank line, and the text up to the next level-N
\* heading, trimmed; the text '# T', blank, '## A', 'a', '## B', 'b' split at
\* level 2 gives exactly '## A' + blank line + 'a' and '## B' + blank line +
\* 'b'.
C15_ChunkText ==
  sections # None =>
    LET lines == SplitLines(text)
        hs == HeadingLines(lines, level)
        out == Val(sections)
    IN /\ \A k \in 1..Len(hs) :
            LET body == Strip(JoinLines(BodyLines(lines, hs, k)))
            IN (k <= Len(out) /\ body # <<>>) =>
                 out[k] = Strip(lines[hs[k]]) \o <<"\n", "\n">> \o body
       /\ (text = TextAB /\ level = 2) =>
            out = << <<"#", "#", " ", "A", "\n", "\n", "a">>,
                     <<"#", "#", " ", "B", "\n", "\n", "b">> >>

\* C15 witness: the example text was split at level 2 into two chunks.
C15_Witness ==
  /\ sections # None
  /\ text = TextAB
  /\ level = 2
  /\ Len(Val(sections)) = 2

NonEmptySections(chunks) ==
  \A i \in 1..Len(chunks) : chunks[i]["section"] # <<>>

\* C16: every chunk in a chatbot's chunks, in the payload of its index and
\* in the result of a search has a non-empty section text, whatever the
\* documents of the corpus are.
C16_SectionTextNonEmpty ==
  /\ \A b \in DOMAIN bots :
       /\ bots[b].chunks # None => NonEmptySections(Val(bots[b].chunks))
       /\ bots[b].repo_vindex # None =>
            NonEmptySections(Val(bots[b].repo_vindex).docs)
  /\ \A t \in Threads :
       context[t] # None => NonEmptySections(Val(context[t]))

\* C16 witness: a corpus whose only chunk is a heading with no text was
\* ingested, and a search returned that chunk.
C16_Witness ==
  /\ pc[Driver] = "generate"
  /\ bots[Driver].chunks =
       Some(<<[filename |-> EntryHeadingOnly.filename,
               section |-> <<"#", "#", " ", "A">>]>>)
  /\ context[Driver] = bots[Driver].chunks

\* the answer of the corpus host makes the fetch fail
FetchFails(r) == r.status_code # 200 \/ r.content = None

\* C19: when the answer to the download has a status other than 200 or a
\* body that is no archive, the fetch raises, produces no document list, and
\* no step of the fetch changes a field of the chatbot.
C19_FetchFailureLeavesChatbot ==
  [][\A t \in Threads :
       /\ (pc[t] \in {"read_repo_data", "read_archive"} /\ pc'[t] # pc[t])
            => bots' = bots
       /\ (pc[t] = "read_archive" /\ pc'[t] # pc[t]
             /\ FetchFails(Val(resp[t])))
            => (pc'[t] = "init_raised" /\ data'[t] = None)]_vars

\* C19 witness: a second initialize() on a built chatbot got status 404 with
\* an archive as body, raised, and the chatbot is still built.
C19_Witness ==
  /\ pc[Driver] = "init_raised"
  /\ exc[Driver] = DownloadFailed
  /\ resp[Driver] = Some(Response(404, Some(Archive1)))
  /\ AllBuilt(bots[Driver])
  /\ init_started = 2

\* the documents of the accepted files of the archive whose read and parse
\* succeed, in archive order
ReadableDocuments(infolist) ==
  LET kept == SelectSeq(infolist,
                LAMBDA e : Accepted(e.filename) /\ e.post # None)
  IN [i \in 1..Len(kept) |-> ToDocument(kept[i])]

\* C20: when the download answers 200 with an archive, the fetch succeeds
\* and its document list holds, in archive order, the document of every
\* accepted file whose read and parse succeed, whatever files fail.
C20_PartialFailureIngestion ==
  [][\A t \in Threads :
       (pc[t] = "read_archive" /\ pc'[t] # pc[t]
         /\ ~FetchFails(Val(resp[t])))
        => /\ pc'[t] = "process_documents"
           /\ data'[t] =
                Some(ReadableDocuments(Val(Val(resp[t]).content)))]_vars

\* C20 witness: an archive whose second accepted file fails to parse gave
\* the documents of the file before it and of the file after it.
C20_Witness ==
  /\ pc[Driver] = "process_documents"
  /\ resp[Driver] = Some(Response(200, Some(Archive1)))
  /\ data[Driver] = Some(Snapshot1)

\* the text part occurs in the text whole at position p
OccursAt(whole, part, p) ==
  /\ p + Len(part) - 1 <= Len(whole)
  /\ SubSeq(whole, p, p + Len(part) - 1) = part

\* the position after the first n sections laid out from position p on with
\* a blank line between two sections
RECURSIVE SectionStart(_, _, _)
SectionStart(context_docs, p, n) ==
  IF n = 1 THEN p
  ELSE SectionStart(context_docs, p, n - 1)
         + Len(SectionOrEmpty(context_docs[n - 1])) + 2

\* the prompt of the query q and the chunks context_docs is well formed
PromptHolds(out, q, context_docs) ==
  /\ \E p \in 1..Len(out) :
       /\ out[p] = QuestionLabel
       /\ OccursAt(out, q, p + 1)
  /\ \E p \in 3..(Len(out) + 1) :
       /\ out[p - 1] = "\n"
       /\ out[p - 2] = ContextLabel
       /\ \A n \in 1..Len(context_docs) :
            /\ OccursAt(out, SectionOrEmpty(context_docs[n]),
                        SectionStart(context_docs, p, n))
            /\ n > 1 =>
                 OccursAt(out, <<"\n", "\n">>,
                          SectionStart(context_docs, p, n) - 2)
  /\ \E p \in 1..Len(out) : out[p] = BrevityLine
  /\ \E p \in 1..Len(out) : out[p] = HonestyInstruction

\* C18: the prompt holds the query as it is after the question label, the
\* section texts of the chunks in their order with a blank line between two
\* of them after the context label, the brevity instruction and the
\* instruction to say that the information is missing; building it changes
\* no field of the chatbot, and a second call with the same query and
\* chunks gives the same prompt.
C18_PromptStructure ==
  [][requests' # requests =>
       /\ bots' = bots
       /\ prompt' # None
       /\ PromptHolds(Val(prompt'), query[Driver], Val(context[Driver]))
       /\ (prompt # None => prompt' = prompt)]_vars

\* C18 witness: a prompt was built twice for a query of several characters
\* and two chunks with different section texts.
C18_Witness ==
  /\ requests = 2
  /\ prompt # None
  /\ query[Driver] = <<"a", " ", "b", "?">>
  /\ Len(Val(context[Driver])) = 2
  /\ SectionOrEmpty(Val(context[Driver])[1]) = <<"#", "#", " ", "B">>
  /\ SectionOrEmpty(Val(context[Driver])[2]) =
       <<"#", "#", " ", "A", "\n", "\n", "a">>

\* C21: a request whose initialization failed is answered with the
\* unavailability literal, a chat call that caught an exception returns the
\* apology literal and the endpoint passes it on, whatever the text of the
\* exception and the stored failure reason are.
C21_NoErrorDetailReachesUser ==
  [][\A t \in Threads :
       /\ (pc[t] = "init_raised" /\ pc'[t] # pc[t])
            => reply'[t] = Reply(200, "response", Unavailable)
       /\ (pc'[t] = "chat_returned" /\ exc'[t] # "")
            => response'[t] = Some(BotApology)
       /\ (pc'[t] = "done" /\ exc'[t] # "")
            => reply'[t] = Reply(200, "response", BotApology)
       /\ (pc'[t] = "done" /\ reply'[t].body # None) =>
            \/ Val(reply'[t].body) \in
                 {Unavailable, BotApology, EndpointApology, MessageRequired}
            \/ (gen_out'[t].called /\ ~gen_out'[t].raised
                 /\ reply'[t].body = gen_out'[t].content)]_vars

\* C21 witness: one request was answered with the unavailability literal
\* after a failed download while another was answered with the apology
\* after a failed search on the chatbot the failure left behind.
C21_Witness ==
  \E t, u \in Threads :
    /\ pc[t] = "done"
    /\ reply[t] = Reply(200, "response", Unavailable)
    /\ chatbot_error = Some(DownloadFailed)
    /\ pc[u] = "done"
    /\ exc[u] = NotInitializedError
    /\ reply[u] = Reply(200, "response", BotApology)

\* C22: when the completion call of generate_explanation fails, the method
\* does not raise: it returns the static fallback explanation, which is a
\* non-empty text that names the LMSYS Chatbot Arena leaderboard, whatever the
\* use case and the recommendation list of the call are.
C22_FallbackOnCompletionFailure ==
  \A t \in Threads :
    (gen_out[t].called /\ gen_out[t].raised) =>
      /\ pc[t] = "explained"
      /\ exc[t] = ""
      /\ explanation =
           Some(Some(FallbackExplanation(use_case, Val(recommendations))))
      /\ Len(Val(Val(explanation))) > 0
      /\ \E i \in DOMAIN Val(Val(explanation)) :
           Val(Val(explanation))[i] = FallbackSource

\* the completion call failed for the use case "a_b" and an empty
\* recommendation list, and the fallback that came back names "A B"
C22_Witness ==
  /\ gen_out[Driver].raised
  /\ pc[Driver] = "explained"
  /\ use_case = Some(<<"a", "_", "b">>)
  /\ recommendations = Some(<<>>)
  /\ SubSeq(Val(Val(explanation)), 1, 4) = <<FallbackLead, "A", " ", "B">>

C24_LazyInitialization ==
  /\ init_started = 0
  /\ rag_chatbot = None
  /\ \A t \in Threads : pc[t] = "idle"
  /\ [][\A t \in Threads :
          /\ (pc[t] = "idle" /\ pc'[t] # "idle" /\ query'[t] = <<>>) =>
                /\ pc'[t] = "done"
                /\ bots' = bots
                /\ app_globals' = app_globals
                /\ init_started' = init_started
          /\ (pc'[t] \in InitializePcs \cup {"construct", "call_initialize"})
                => query'[t] # <<>>
          /\ (pc[t] = "idle" /\ pc'[t] \notin {"idle", "done"}
                /\ ~chatbot_initialized) => pc'[t] = "construct"
          /\ (pc'[t] = "vector_search" /\ pc[t] # "vector_search") =>
                \/ pc[t] = "init_returned"
                \/ pc[t] = "get_chatbot_return" /\ chatbot_initialized
          /\ (pc'[t] = "init_returned" /\ pc[t] # "init_returned") =>
                /\ pc[t] = "fit_index"
                /\ init_started > 0]_vars

\* a request with a blank message was rejected without any initialization,
\* and the next request went through initialize() and is about to search
C24_Witness ==
  \E t, u \in Threads :
    /\ pc[t] = "done"
    /\ reply[t] = Reply(400, "error", MessageRequired)
    /\ pc[u] = "vector_search"
    /\ query[u] # <<>>
    /\ init_started = 1
    /\ AllBuilt(bots[this[u]])

\* C25: within one chat call the query is embedded, then the index is
\* searched with that embedding, then the prompt is assembled from the query
\* and the search results, then the generation call is made with that prompt;
\* a chat call makes at most one generation call, and makes none when the
\* embedding or the search step fails.
C25_ChatStepOrder ==
  [][\A t \in Threads :
       /\ (pc[t] = "vector_search" /\ pc'[t] = "generate") =>
             /\ embedded'[t]
             /\ context'[t] =
                  Some(SearchIndex(Val(bots[this[t]].repo_vindex),
                                   Encode(query[t]), NumResults))
             /\ ~gen_out'[t].called
       /\ (gen_out'[t] # gen_out[t] /\ gen_out'[t].called) =>
             /\ pc[t] = "generate"
             /\ ~gen_out[t].called
             /\ embedded[t]
             /\ context[t] # None
             /\ gen_out'[t].prompt =
                  Some(FormatPrompt(query[t], Val(context[t])))
             /\ pc'[t] = "chat_returned"
       /\ (pc[t] = "vector_search" /\ pc'[t] = "chat_returned") =>
             /\ exc'[t] # ""
             /\ gen_out'[t] = gen_out[t]
             /\ ~gen_out'[t].called
       /\ (pc'[t] = "chat_returned" /\ pc[t] # "chat_returned") =>
             pc[t] \in {"vector_search", "generate"}]_vars

\* a chat call on a built chatbot has returned: it embedded the query,
\* retrieved two chunks, and made its one generation call with the prompt
\* assembled from them
C25_Witness ==
  \E t \in Threads :
    /\ pc[t] = "chat_returned"
    /\ AllBuilt(bots[this[t]])
    /\ embedded[t]
    /\ context[t] # None
    /\ Len(Val(context[t])) = NumResults
    /\ gen_out[t].called
    /\ gen_out[t].prompt = Some(FormatPrompt(query[t], Val(context[t])))

\* C26: no step of a chat call and no search call, whether it succeeds or
\* fails, changes a chatbot object: chunks, embeddings, index and embedding
\* model stay as initialize() left them.
C26_IndexReadOnly ==
  [][(\/ \E t \in Threads :
           pc[t] \in {"vector_search", "generate"} /\ pc'[t] # pc[t]
      \/ searches' # searches
      \/ results' # results) => bots' = bots]_vars

\* a search call succeeded and then a chat call failed in its generation
\* call, on a built chatbot that is still as it was built
C26_Witness ==
  /\ Len(searches) = 1
  /\ pc[Driver] = "chat_returned"
  /\ exc[Driver] = "generation"
  /\ gen_out[Driver].raised
  /\ bots[Driver] = BuiltBot(Snapshot1)

\* C27: a search on a built index that holds zero stored vectors, called
\* directly or by chat(), fails with the not-initialized error and returns no
\* result list.
C27_EmptyIndexNotInitialized ==
  [][\A t \in Threads :
       LET ZeroVectors(bot) ==
             IF bot.repo_vindex = None THEN FALSE
             ELSE Val(bot.repo_vindex).vectors = Some(<<>>)
       IN
       /\ (/\ pc[t] = "idle" /\ pc'[t] = "idle" /\ requests' # requests
           /\ t = Driver /\ ZeroVectors(bots[this[t]])) =>
             /\ exc'[t] = NotInitializedError
             /\ results' = None
       /\ (/\ pc[t] = "vector_search" /\ pc'[t] # "vector_search"
           /\ ZeroVectors(bots[this[t]])) =>
             /\ exc'[t] = NotInitializedError
             /\ context'[t] = None]_vars

\* C28: a level-N heading with no text after it (the next level-N heading,
\* only blank lines, or the end of the text follows) is kept as a chunk, and
\* the text of that chunk is the trimmed heading line alone.
C28_EmptyHeadingRetained ==
  sections # None =>
    LET lines == SplitLines(text)
        hs == HeadingLines(lines, level)
        out == Val(sections)
    IN \A k \in 1..Len(hs) :
         Strip(JoinLines(BodyLines(lines, hs, k))) = <<>> =>
           /\ k <= Len(out)
           /\ out[k] = Strip(lines[hs[k]])

\* C28 witness: '## A' directly followed by '## B ', itself followed by a
\* blank line and the end of the text, was split at level 2 into the two
\* trimmed heading lines.
C28_Witness ==
  /\ sections = Some(<< <<"#", "#", " ", "A">>, <<"#", "#", " ", "B">> >>)
  /\ level = 2
  /\ text = JoinLines(<< <<"#", "#", " ", "A">>, <<"#", "#", " ", "B", " ">>,
                        <<>> >>)

\* the sections of the first n documents in document order, each with the
\* position of its parent document; a document with an empty body has none
RECURSIVE ParentSections(_, _)
ParentSections(docs, n) ==
  IF n = 0 THEN <<>>
  ELSE LET doc == docs[n]
           body == IF "content" \in DOMAIN doc /\ doc["content"] # <<>>
                   THEN SplitMarkdownByLevel(doc["content"], 2)
                   ELSE <<>>
       IN ParentSections(docs, n - 1) \o
            [m \in 1..Len(body) |-> [parent |-> n, section |-> body[m]]]

\* C29: building the chunks leaves the document records as they are; the
\* chunks are the sections of the documents in document order, none for a
\* document with an empty body; and each chunk has every key of its parent
\* document but the raw body, with the value the parent has for it.
C29_ChunkMetadata ==
  [][\A t \in Threads :
       (pc[t] = "process_documents" /\ pc'[t] # pc[t]) =>
         LET docs == Val(data[t])
             expected == ParentSections(docs, Len(docs))
             out == Val(bots'[this[t]].chunks)
         IN /\ data'[t] = data[t]
            /\ Len(out) = Len(expected)
            /\ \A i \in 1..Len(expected) :
                 /\ out[i]["section"] = expected[i].section
                 /\ "content" \notin DOMAIN out[i]
                 /\ \A k \in DOMAIN docs[expected[i].parent] \ {"content"} :
                      /\ k \in DOMAIN out[i]
                      /\ out[i][k] = docs[expected[i].parent][k]]_vars

\* C30: get_top_recommendations returns at most top_n entries; with
\* 'open_only' none of them has license 'Proprietary', with
\* 'proprietary_only_enterprise' all of them have; without the priority
\* 'lower_cost' the entries are in ascending rank order and are the
\* lowest-ranked rows that pass the filter; the result is empty when the use
\* case maps to no file and when no row passes the filter.
C30_TopRecommendations ==
  recommendations # None =>
    LET out == Val(recommendations)
        csv_files == GetRelevantCsvFiles(use_case, visual_ai_type)
        passing ==
          IF csv_files = <<>> THEN <<>>
          ELSE IF data_dir[csv_files[1]] = None THEN <<>>
          ELSE SelectSeq(Val(data_dir[csv_files[1]]),
                 LAMBDA row :
                   /\ model_type = Some("open_only")
                        => row.license # "Proprietary"
                   /\ model_type = Some("proprietary_only_enterprise")
                        => row.license = "Proprietary")
        RanksBelow(r) ==
          Cardinality({i \in 1..Len(passing) : passing[i].rank < r})
        RanksUpTo(r) ==
          Cardinality({i \in 1..Len(passing) : passing[i].rank <= r})
    IN /\ Len(out) <= top_n
       /\ model_type = Some("open_only") =>
            \A i \in 1..Len(out) : out[i].license # "Proprietary"
       /\ model_type = Some("proprietary_only_enterprise") =>
            \A i \in 1..Len(out) : out[i].license = "Proprietary"
       /\ \A i \in 1..Len(out) :
            \E j \in 1..Len(passing) :
              /\ out[i].rank = passing[j].rank
              /\ out[i].model = passing[j].model
              /\ out[i].license = passing[j].license
       /\ priority # Some("lower_cost") =>
            /\ \A i, j \in 1..Len(out) : i < j => out[i].rank <= out[j].rank
            /\ \A i \in 1..Len(out) :
                 /\ RanksBelow(out[i].rank) < i
                 /\ RanksUpTo(out[i].rank) >= i
       /\ GetRelevantCsvFiles(use_case, visual_ai_type) = <<>> => out = <<>>
       /\ passing = <<>> => out = <<>>

\* C30 witness: of three rows of the web development leaderboard, given out
\* of rank order, a call with top_n = 2 and no filter returned the row of
\* rank 1 and then one of the two rows of rank 2.
C30_Witness ==
  /\ recommendations # None
  /\ use_case = Some("technical_developer")
  /\ model_type = Some("no_preference")
  /\ priority = None
  /\ top_n = 2
  /\ data_dir["lmarena_webdev_with_pricing_or.csv"] =
       Some(<<RowAcme, RowLlama, RowGpt>>)
  /\ Len(Val(recommendations)) = 2
  /\ Val(recommendations)[1].model = "GPT"
  /\ Val(recommendations)[2].model = "Llama"

====
